---- MODULE Spec2Model ----
(***************************************************************************)
(* krb5-sync: the durable on-disk change queue of the kadmind password and *)
(* status synchronisation plugin, the delivery attempt policy that feeds   *)
(* it (plugin/general.c), the queue itself (plugin/queue.c) and the replay *)
(* tool (tools/krb5-sync.c).                                               *)
(*                                                                         *)
(* Strings are sequences of one-character strings, so that every           *)
(* formatting, truncation and line-parsing step of the C code is computed  *)
(* on characters.  The queue directory maps file names to inodes, and      *)
(* every inode has a byte content; an open FILE keeps its inode after the  *)
(* name is unlinked.                                                       *)
(***************************************************************************)
EXTENDS Integers, Sequences, FiniteSets, TLC

(***************************************************************************)
(* Bounds of the model.                                                    *)
(***************************************************************************)
\* Number of changes (hook invocations) submitted in one behaviour in which
\* the kadmind processes and the replay tool run concurrently.
MaxCalls == 2
\* The same when the hooks and the replay tool run one after another.
MaxSeqCalls == 3

\* The changes of a short run of hooks, one after another.
MaxFewCalls == 2
\* Last second of the wall clock; the clock starts at 0 and never goes back.
MaxTime == 1

(***************************************************************************)
(* Program constants.                                                      *)
(***************************************************************************)
MAX_QUEUE == 100
ENOENT == 2
EBADF == 9
EEXIST == 17
ENOSPC == 28
KADM5_MISSING_KRB5_CONF_PARAMS == 43787560
\* sync_queue_conflict returns a bare -1 when queue_dir is not configured.
UNTYPED_FAILURE == 0 - 1
\* exit(1) of the replay tool.
EXIT_FAILURE == 1

(***************************************************************************)
(* Characters and strings.                                                 *)
(***************************************************************************)
\* The characters the model uses, in ASCII order.
Ascii ==
    << "\n", "-", ".", "/", "0", "1", "2", "3", "4", "5", "6", "7", "8", "9",
       "@", "R", "T", "Z", "\\", "a", "b", "c", "d", "e", "h", "i", "k", "l",
       "n", "o", "p", "r", "s", "t", "w", "x", "y" >>

Ord(c) == CHOOSE i \in 1..Len(Ascii) : Ascii[i] = c

NULL == << "NULL" >>

NL == "\n"

sAd == << "a", "d" >>
sPassword == << "p", "a", "s", "s", "w", "o", "r", "d" >>
sEnable == << "e", "n", "a", "b", "l", "e" >>
sDisable == << "d", "i", "s", "a", "b", "l", "e" >>
sDash == << "-" >>
\* The entries "." and ".." of every directory.
sDot == << "." >>
sDotDot == << ".", "." >>
\* The name of the lock file in the queue directory.
LockName == << ".", "l", "o", "c", "k" >>
sNewline == << NL >>

Digit(n) == Ascii[5 + n]

\* printf("%02d", n)
Fmt02d(n) == IF n < 100 THEN << Digit(n \div 10), Digit(n % 10) >>
             ELSE << Digit(n \div 100), Digit((n \div 10) % 10), Digit(n % 10) >>

\* strncmp(prefix, name, strlen(prefix)) == 0
StartsWith(name, prefix) ==
    /\ Len(prefix) <= Len(name)
    /\ \A i \in 1..Len(prefix) : name[i] = prefix[i]

\* strcmp(a, b) < 0 on unsigned characters
RECURSIVE StrLess(_, _)
StrLess(a, b) ==
    IF b = << >> THEN FALSE
    ELSE IF a = << >> THEN TRUE
    ELSE IF Head(a) = Head(b) THEN StrLess(Tail(a), Tail(b))
    ELSE Ord(Head(a)) < Ord(Head(b))

\* Index of the first occurrence of c in s at or after position i, 0 if none.
RECURSIVE IndexFrom(_, _, _)
IndexFrom(s, c, i) ==
    IF i > Len(s) THEN 0
    ELSE IF s[i] = c THEN i
    ELSE IndexFrom(s, c, i + 1)

\* strchr(s, c): index of the first c in s, 0 if none.
StrChr(s, c) == IndexFrom(s, c, 1)

Replace(s, from, to) == [i \in 1..Len(s) |-> IF s[i] = from THEN to ELSE s[i]]

(***************************************************************************)
(* Principals.  A principal is a sequence of components and a realm.       *)
(***************************************************************************)
Realm == << "R" >>

Princ(comps) == [comps |-> comps, realm |-> Realm]

PrincTest == Princ(<< << "t" >> >>)
PrincHost == Princ(<< << "h" >>, << "s" >> >>)

Principals == { PrincTest, PrincHost }

\* The user whose principal with the instance s is the host principal.
PrincBase == Princ(<< << "h" >> >>)

\* A user whose name holds a dot.
PrincDot == Princ(<< << "h", ".", "s" >> >>)

\* A user whose name holds an '@', which krb5_unparse_name quotes.
PrincAt == Princ(<< << "t", "@", "x" >> >>)

\* A user whose name holds dashes: t-ad-password-x.
PrincDash == Princ(<< << "t" >> \o << "-", "a", "d", "-" >>
                        \o << "p", "a", "s", "s", "w", "o", "r", "d" >>
                        \o << "-", "x" >> >>)

\* Quoting of one component by krb5_unparse_name.
RECURSIVE Quote(_)
Quote(s) ==
    IF s = << >> THEN << >>
    ELSE IF Head(s) \in { "\\", "/", "@" }
         THEN << "\\", Head(s) >> \o Quote(Tail(s))
    ELSE IF Head(s) = NL THEN << "\\", "n" >> \o Quote(Tail(s))
    ELSE << Head(s) >> \o Quote(Tail(s))

RECURSIVE JoinComps(_)
JoinComps(comps) ==
    IF comps = << >> THEN << >>
    ELSE IF Len(comps) = 1 THEN Quote(comps[1])
    ELSE Quote(comps[1]) \o << "/" >> \o JoinComps(Tail(comps))

\* krb5_unparse_name: comp/comp@REALM with the special characters quoted.
UnparseName(p) == JoinComps(p.comps) \o << "@" >> \o Quote(p.realm)


\* The realm krb5_parse_name gives a name that has none.
DefaultRealm == Realm

ParseError == [ok |-> FALSE, princ |-> NULL]

\* krb5_parse_name: the inverse of krb5_unparse_name.  realm is NULL until
\* the unquoted '@' has been seen.
RECURSIVE ParseFrom(_, _, _, _, _)
ParseFrom(s, i, comps, cur, realm) ==
    IF i > Len(s)
    THEN IF realm = NULL
         THEN [ok |-> TRUE,
               princ |-> [comps |-> Append(comps, cur), realm |-> DefaultRealm]]
         ELSE [ok |-> TRUE, princ |-> [comps |-> comps, realm |-> realm]]
    ELSE IF s[i] = "\\"
    THEN IF i = Len(s) THEN ParseError
         ELSE LET c == IF s[i + 1] = "n" THEN NL ELSE s[i + 1]
              IN  IF realm = NULL
                  THEN ParseFrom(s, i + 2, comps, Append(cur, c), realm)
                  ELSE ParseFrom(s, i + 2, comps, cur, Append(realm, c))
    ELSE IF s[i] = "/" /\ realm = NULL
    THEN ParseFrom(s, i + 1, Append(comps, cur), << >>, realm)
    ELSE IF s[i] = "@"
    THEN IF realm # NULL THEN ParseError
         ELSE ParseFrom(s, i + 1, Append(comps, cur), << >>, << >>)
    ELSE IF realm = NULL
    THEN ParseFrom(s, i + 1, comps, Append(cur, s[i]), realm)
    ELSE ParseFrom(s, i + 1, comps, cur, Append(realm, s[i]))

ParseName(s) == ParseFrom(s, 1, << >>, << >>, NULL)

(***************************************************************************)
(* plugin/queue.c: names and contents of queue entries.                    *)
(***************************************************************************)
\* A queue_prefix that files every operation under its own name.
queue_prefix_verbatim(principal, domain, operation) ==
    LET name == UnparseName(principal)
        p == StrChr(name, "@")
        user == IF p # 0 THEN SubSeq(name, 1, p - 1) ELSE name
    IN  Replace(user, "/", ".") \o sDash \o domain \o sDash \o operation
            \o sDash

\* A queue_prefix that leaves the '/' of the user as they are.
queue_prefix_slashes(principal, domain, operation) ==
    LET op == IF operation = sDisable THEN sEnable ELSE operation
        name == UnparseName(principal)
        p == StrChr(name, "@")
        user == IF p # 0 THEN SubSeq(name, 1, p - 1) ELSE name
    IN  user \o sDash \o domain \o sDash \o op \o sDash

\* queue_prefix: "<user>-<domain>-<operation>-", disable filed under enable,
\* the user cut at the first '@' and its '/' turned into '.'.
queue_prefix(principal, domain, operation) ==
    LET op == IF operation = sDisable THEN sEnable ELSE operation
        name == UnparseName(principal)
        p == StrChr(name, "@")
        user == IF p # 0 THEN SubSeq(name, 1, p - 1) ELSE name
    IN  Replace(user, "/", ".") \o sDash \o domain \o sDash \o op \o sDash

\* queue_timestamp: "%04d%02d%02dT%02d%02d%02dZ" of gmtime(seconds), for a
\* clock within the first day of the epoch.
queue_timestamp(seconds) ==
    << "1", "9", "7", "0" >> \o Fmt02d(1) \o Fmt02d(1) \o << "T" >>
        \o Fmt02d(seconds \div 3600) \o Fmt02d((seconds \div 60) % 60)
        \o Fmt02d(seconds % 60) \o << "Z" >>

\* The i-th candidate file name of sync_queue_write ("%s%s-%02d").
QueuePath(prefix, timestamp, i) == prefix \o timestamp \o sDash \o Fmt02d(i)

\* The user sync_queue_write stores: the unparsed name cut at the first '@'
\* that is not quoted by a backslash.
RECURSIVE RealmCut(_, _)
RealmCut(name, i) ==
    IF i > Len(name) THEN name
    ELSE IF name[i] = "\\" /\ i < Len(name) THEN RealmCut(name, i + 2)
    ELSE IF name[i] = "@" THEN SubSeq(name, 1, i - 1)
    ELSE RealmCut(name, i + 1)

QueueUser(principal) == RealmCut(UnparseName(principal), 1)

\* A sync_queue_write that stores the operation of the key instead of the
\* operation asked for.
WriteChunksKeyOperation(principal, domain, operation, password) ==
    << QueueUser(principal), sNewline, domain, sNewline,
       IF operation = sDisable THEN sEnable ELSE operation, sNewline >>
        \o (IF password # NULL THEN << password, sNewline >> ELSE << >>)

\* The strings sync_queue_write hands to WRITE_CHECK, in order.
WriteChunks(principal, domain, operation, password) ==
    << QueueUser(principal), sNewline, domain, sNewline, operation, sNewline >>
        \o (IF password # NULL THEN << password, sNewline >> ELSE << >>)

RECURSIVE Concat(_)
Concat(chunks) ==
    IF chunks = << >> THEN << >> ELSE Head(chunks) \o Concat(Tail(chunks))

(***************************************************************************)
(* tools/krb5-sync.c: reading a queue file.                                *)
(***************************************************************************)
BUFSIZ == 8192

\* A read_line that takes the rest of the file as a line when the newline
\* is missing.
read_line_unterminated(content, pos) ==
    LET rest == SubSeq(content, pos + 1, Len(content))
        nl == StrChr(rest, NL)
    IN  IF rest = << >> THEN [ok |-> FALSE, line |-> << >>, pos |-> pos]
        ELSE IF nl = 0
             THEN [ok |-> TRUE, line |-> rest, pos |-> pos + Len(rest)]
        ELSE [ok |-> TRUE, line |-> SubSeq(rest, 1, nl - 1), pos |-> pos + nl]

\* read_line at byte offset pos of content: fgets takes at most BUFSIZ - 1
\* bytes, up to and including the first newline; the line must end in one.
read_line(content, pos) ==
    LET rest == SubSeq(content, pos + 1, Len(content))
        nl == StrChr(rest, NL)
        n == IF nl # 0 /\ nl <= BUFSIZ - 1 THEN nl
             ELSE IF Len(rest) <= BUFSIZ - 1 THEN Len(rest)
             ELSE BUFSIZ - 1
        buffer == SubSeq(rest, 1, n)
    IN  IF rest = << >> THEN [ok |-> FALSE, line |-> << >>, pos |-> pos]
        ELSE IF buffer[n] # NL THEN [ok |-> FALSE, line |-> buffer, pos |-> pos + n]
        ELSE [ok |-> TRUE, line |-> SubSeq(buffer, 1, n - 1), pos |-> pos + n]


(***************************************************************************)
(* Configuration (struct plugin_config / kadm5_hook_modinfo).              *)
(***************************************************************************)
\* Any configured string whose exact value the queue does not depend on.
SET == << "s" >>

FullConfig ==
    [ad_keytab |-> SET, ad_principal |-> SET, ad_realm |-> SET,
     ad_admin_server |-> SET, ad_ldap_base |-> SET,
     ad_base_instance |-> NULL, ad_instances |-> << >>,
     ad_queue_only |-> FALSE, queue_dir |-> SET]

ConfigSet ==
    { FullConfig,
      [FullConfig EXCEPT !.ad_queue_only = TRUE],
      [FullConfig EXCEPT !.queue_dir = NULL],
      [FullConfig EXCEPT !.ad_realm = NULL],
      [FullConfig EXCEPT !.ad_keytab = NULL] }

\* A deployment that synchronizes passwords and no account status.
PasswordOnlyConfig == [FullConfig EXCEPT !.ad_keytab = NULL]

\* The configuration of an empty krb5.conf (tests/data/empty.conf).
EmptyConfig ==
    [ad_keytab |-> NULL, ad_principal |-> NULL, ad_realm |-> NULL,
     ad_admin_server |-> NULL, ad_ldap_base |-> NULL,
     ad_base_instance |-> NULL, ad_instances |-> << >>,
     ad_queue_only |-> FALSE, queue_dir |-> NULL]

\* Configurations that lack one of the Active Directory settings, or all
\* of them.
PartialConfigs ==
    { [FullConfig EXCEPT !.ad_admin_server = NULL],
      [FullConfig EXCEPT !.ad_keytab = NULL],
      [FullConfig EXCEPT !.ad_ldap_base = NULL],
      [FullConfig EXCEPT !.ad_principal = NULL],
      [FullConfig EXCEPT !.ad_realm = NULL],
      EmptyConfig }

\* A deployment in which the password of the principal with the instance s
\* is the one synchronized for the user.
BaseConfig == [FullConfig EXCEPT !.ad_base_instance = << "s" >>]

\* The principals of the local Kerberos database, for sync_instance_exists.
LocalKDB == Principals

\* An instance_allowed that lets every instance through.
instance_allowed_any(cfg, instance) == instance # NULL

\* instance_allowed (plugin/general.c)
instance_allowed(cfg, instance) ==
    IF instance = NULL THEN FALSE
    ELSE IF cfg.ad_base_instance # NULL /\ cfg.ad_base_instance = instance
    THEN TRUE
    ELSE \E i \in 1..Len(cfg.ad_instances) : cfg.ad_instances[i] = instance

\* sync_instance_exists (plugin/instance.c)
sync_instance_exists(base, instance) ==
    /\ Len(base.comps) = 1
    /\ [comps |-> << base.comps[1], instance >>, realm |-> base.realm] \in LocalKDB

\* principal_allowed (plugin/general.c): the value stored in *allowed.
principal_allowed(cfg, principal, pwchange) ==
    LET ncomp == Len(principal.comps)
    IN  IF pwchange /\ ncomp = 1 /\ cfg.ad_base_instance # NULL
        THEN ~sync_instance_exists(principal, cfg.ad_base_instance)
        ELSE IF ncomp > 1
        THEN instance_allowed(cfg, principal.comps[2])
        ELSE TRUE

(***************************************************************************)
(* State.                                                                  *)
(***************************************************************************)
\* kadmind processes running the hooks, and invocations of the replay tool.
Procs == { "p1", "p2" }
Replayers == { "r1", "r2" }
NoProc == "none"

\* The new passwords kadmind hands to the password hook; NULL when the keys
\* were randomized.
Passwords == { << "x" >>, << "x", NL, "y" >> }

VARIABLES
    config,     \* the loaded configuration
    dirExists,  \* whether the queue directory exists
    serial,     \* TRUE when hooks and replays run one after another
    plugin,     \* the kadmind plugin loaded: "heimdal" or "mit"
    umask,      \* the file mode creation mask of the kadmind processes
    accounts,   \* further principals of the realm kadmind gets changes for
    runners,    \* the kadmind workers and replay invocations that run
    limit,      \* the number of changes the hooks pass on in the run
    now,        \* the last value time(NULL) returned
    lock,       \* holder of the flock on .lock, or NoProc
    lockFile,   \* whether .lock exists
    dir,        \* queue directory: file name -> inode
    files,      \* inode -> content; the inode of a change's entry is its number
    mode,       \* inode -> permission bits of the file
    calls,      \* number of changes submitted so far
    req,        \* the submitted changes, by number
    pol,        \* per kadmind process: position in sync_chpass / sync_status
    rep,        \* per replay invocation: position in process_queue_file
    adlog,      \* deliveries the directory service accepted, in order
    attempts,   \* change -> number of synchronous delivery calls made for it
    wrote,      \* changes for which the policy called sync_queue_write
    enq         \* changes whose entry sync_queue_write wrote to the end

vars == << config, dirExists, serial, plugin, umask, accounts, runners, limit,
           now, lock, lockFile, dir, files, mode, calls, req, pol, rep, adlog,
           attempts, wrote, enq >>

setup == << config, dirExists, serial, plugin, umask, accounts, runners,
            limit >>

\* The arguments of the hooks.  The concurrent runs draw the requests that
\* reach the queue; the sequential runs also those the hooks turn away, and
\* the password changes of the further principals of the realm.
ChpassArgs ==
    { [princ |-> PrincTest, password |-> pw] : pw \in Passwords }
        \cup (IF serial
              THEN { [princ |-> PrincTest, password |-> NULL],
                     [princ |-> PrincHost, password |-> << "x" >>] }
              ELSE {})
        \cup { [princ |-> a, password |-> << "x" >>] : a \in accounts }

StatusArgs ==
    { [princ |-> PrincTest, enabled |-> e] : e \in BOOLEAN }
        \cup (IF serial
              THEN { [princ |-> PrincHost, enabled |-> FALSE] }
              ELSE {})
        \cup { [princ |-> a, enabled |-> FALSE] : a \in accounts }

CallLimit == limit

MaxInode == IF MaxCalls > MaxSeqCalls THEN MaxCalls ELSE MaxSeqCalls

\* The inode of the lock file.
LockInode == MaxInode + 1

Inodes == 0..LockInode

NoArg == [princ |-> NULL, op |-> NULL, pw |-> NULL]

\* The stages at which kadmind calls a hook (enum kadm5_hook_stage).
Stages == { "KADM5_HOOK_STAGE_PRECOMMIT", "KADM5_HOOK_STAGE_POSTCOMMIT" }

\* The arguments of a hook of plugin/heimdal.c that the policy does not
\* get: the hook, the stage, the code of the commit, the mask of a modify
\* and the attributes of its entry.  NoHook when the policy is entered with
\* the stage and the mask it is written for.
NoHook == [name |-> "none", stage |-> "none", code |-> 0, mask |-> {},
           attributes |-> {}]

PolIdle == [pc |-> "idle", arg |-> NoArg, hook |-> NoHook, chg |-> 0,
            conflict |-> TRUE, ret |-> 0, fd |-> FALSE, path |-> NULL,
            wi |-> 0]

\* rival records that another invocation, started on the same file while
\* this one had it open, has removed it and exited 0.
RepIdle == [pc |-> "idle", file |-> NULL, ino |-> 0, first |-> FALSE,
            pos |-> 0, princ |-> NULL, op |-> NULL, pw |-> NULL, status |-> 0,
            from |-> "idle", rival |-> FALSE]

\* The configurations of the concurrent runs.
ConcurrentConfigs == { FullConfig, [FullConfig EXCEPT !.queue_dir = NULL] }

EmptyDir == [n \in {} |-> 0]

\* The permission bits of a file (sys/stat.h), a mode being the set of the
\* bits that are on.
PermissionBits ==
    { "S_IRUSR", "S_IWUSR", "S_IXUSR", "S_IRGRP", "S_IWGRP", "S_IXGRP",
      "S_IROTH", "S_IWOTH", "S_IXOTH" }

\* An open of the queue file with 0644, the mode of the lock file.
QueueFileModeOfLock == { "S_IRUSR", "S_IWUSR", "S_IRGRP", "S_IROTH" }

\* 0600, the mode sync_queue_write passes to open.
QueueFileMode == { "S_IRUSR", "S_IWUSR" }

\* 0644, the mode lock_queue passes to open.
LockFileMode == { "S_IRUSR", "S_IWUSR", "S_IRGRP", "S_IROTH" }

\* 0666, the mode sync_queue_block passes to open.
BlockFileMode ==
    { "S_IRUSR", "S_IWUSR", "S_IRGRP", "S_IWGRP", "S_IROTH", "S_IWOTH" }

\* The masks 022 and 077.
Umask022 == { "S_IWGRP", "S_IWOTH" }

Umask077 == PermissionBits \ { "S_IRUSR", "S_IWUSR", "S_IXUSR" }

Umasks == { Umask022, Umask077 }

\* The mode open(path, O_CREAT, requested) gives the file it creates.
OpenMode(requested, mask) == requested \ mask

NoMode == {}

StartFor(sequential, loaded, configs, dirs, masks, realms, started, count) ==
    /\ config \in configs
    /\ dirExists \in dirs
    /\ serial = sequential
    /\ plugin = loaded
    /\ umask \in masks
    /\ accounts \in realms
    /\ runners = started
    /\ limit = count
    /\ now = 0
    /\ lock = NoProc
    /\ lockFile = FALSE
    /\ dir = EmptyDir
    /\ files = [i \in Inodes |-> << >>]
    /\ mode = [i \in Inodes |-> NoMode]
    /\ calls = 0
    /\ req = << >>
    /\ pol = [p \in Procs |-> PolIdle]
    /\ rep = [r \in Replayers |-> RepIdle]
    /\ adlog = << >>
    /\ attempts = [c \in 1..MaxInode |-> 0]
    /\ wrote = {}
    /\ enq = {}

\* A run as long as its kind allows.
StartWith(sequential, loaded, configs, dirs, masks, realms, started) ==
    StartFor(sequential, loaded, configs, dirs, masks, realms, started,
             IF sequential THEN MaxSeqCalls ELSE MaxCalls)

\* The queue runner started by one party, never twice at a time, and the
\* kadmind workers: every one of them when they run side by side, one when
\* the hooks run one after another, a worker keeping nothing from one hook
\* to the next.
StartIn(sequential, loaded, configs, dirs, masks, realms) ==
    StartWith(sequential, loaded, configs, dirs, masks, realms,
              IF sequential THEN { "p1", "r1" } ELSE Procs \cup { "r1" })

\* A realm with no further principals, and kadmind run with the mask 022.
Start(sequential, loaded, configs, dirs) ==
    StartIn(sequential, loaded, configs, dirs, { Umask022 }, { {} })

\* A short run of hooks one after another, the queue directory in place.
StartShort(loaded, configs, masks, realms) ==
    StartFor(TRUE, loaded, configs, { TRUE }, masks, realms, { "p1", "r1" },
             MaxFewCalls)

Init == Start(FALSE, "heimdal", ConcurrentConfigs, BOOLEAN)

InitSeq == Start(TRUE, "heimdal", ConfigSet, BOOLEAN)

\* The same deployments in a short run.
InitShort ==
    StartFor(TRUE, "heimdal", ConfigSet, BOOLEAN, { Umask022 }, { {} },
             { "p1", "r1" }, MaxFewCalls)

InitApi == Start(TRUE, "mit", { FullConfig }, { TRUE })

InitTool == StartShort("heimdal", { FullConfig }, { Umask022 }, { {} })

InitLive == Start(FALSE, "heimdal", { PasswordOnlyConfig }, { TRUE })

\* ad_instances names the instance of the host principal, in a deployment
\* that synchronizes no account status.
InstancesConfig ==
    [FullConfig EXCEPT !.ad_instances = << PrincHost.comps[2] >>,
                       !.ad_keytab = NULL]

InitInstances ==
    StartShort("heimdal", { InstancesConfig }, { Umask022 }, { { PrincDot } })

\* kadmind run with either mask.
InitUmask == StartShort("heimdal", { PasswordOnlyConfig }, Umasks, { {} })

\* A realm with a user who also has a principal with the base instance.
InitBase ==
    StartShort("heimdal", { BaseConfig }, { Umask022 }, { { PrincBase } })

\* Deployments whose Active Directory configuration is not complete.
InitPartial == StartShort("heimdal", PartialConfigs, { Umask022 }, { {} })

\* The queue runner started by an operator and by a timer, while one
\* kadmind worker handles changes.
InitRunners ==
    StartWith(FALSE, "heimdal", { PasswordOnlyConfig }, { TRUE }, { Umask022 },
              { {} }, { "p1" } \cup Replayers)

\* A deployment that synchronizes passwords only, its queue directory in
\* place.
InitDrain ==
    StartShort("heimdal", { PasswordOnlyConfig }, { Umask022 }, { {} })

\* Realms with a user whose name holds a quoted character, or dashes.
InitNames ==
    StartShort("heimdal", { PasswordOnlyConfig }, { Umask022 },
               { { PrincAt }, { PrincDash } })

\* The entries a burst of k password changes for the test principal leaves
\* in one second when each of them is queued: the j-th of them, counted from
\* 0, has the sequence number j and, being older than every change of the
\* run, an inode below 1.
BurstSizes == { 0, MAX_QUEUE - 3, MAX_QUEUE }

BurstInode(j) == j - MAX_QUEUE

\* The second of the burst; an empty queue is met at the start of the clock.
BurstSecond(k) == IF k = 0 THEN 0 ELSE MaxTime

BurstDir(k) ==
    [name \in { QueuePath(queue_prefix(PrincTest, sAd, sPassword),
                          queue_timestamp(BurstSecond(k)), j) :
                    j \in 0..(k - 1) } |->
        BurstInode(CHOOSE j \in 0..(k - 1) :
                       name = QueuePath(queue_prefix(PrincTest, sAd, sPassword),
                                        queue_timestamp(BurstSecond(k)), j))]

BurstFiles(k) ==
    [i \in BurstInode(0)..LockInode |->
        IF i < BurstInode(k)
        THEN Concat(WriteChunks(PrincTest, sAd, sPassword, << "x" >>))
        ELSE << >>]

\* One kadmind worker in the middle of a burst of password changes, in a
\* deployment that synchronizes no account status.
InitBurst ==
    /\ config = [FullConfig EXCEPT !.ad_keytab = NULL]
    /\ dirExists = TRUE
    /\ serial = TRUE
    /\ plugin = "heimdal"
    /\ umask = Umask022
    /\ accounts = {}
    /\ runners = { "p1" }
    /\ limit = MaxSeqCalls
    /\ lock = NoProc
    /\ \E k \in BurstSizes :
          /\ now = BurstSecond(k)
          /\ lockFile = (k > 0)
          /\ dir = BurstDir(k)
          /\ files = BurstFiles(k)
          /\ mode = [i \in BurstInode(0)..LockInode |->
                        IF i < BurstInode(k)
                        THEN OpenMode(QueueFileMode, Umask022)
                        ELSE IF i = LockInode /\ k > 0
                        THEN OpenMode(LockFileMode, Umask022)
                        ELSE NoMode]
    /\ calls = 0
    /\ req = << >>
    /\ pol = [p \in Procs |-> PolIdle]
    /\ rep = [r \in Replayers |-> RepIdle]
    /\ adlog = << >>
    /\ attempts = [c \in 1..MaxInode |-> 0]
    /\ wrote = {}
    /\ enq = {}

\* unlink(name) and open(name, O_CREAT | O_EXCL) on the directory.
Unlinked(d, name) == [n \in (DOMAIN d) \ {name} |-> d[n]]

Linked(d, name, ino) ==
    [n \in (DOMAIN d) \cup {name} |-> IF n = name THEN ino ELSE d[n]]

\* The inodes some process holds open: the entry a sync_queue_write is
\* writing, and the file a process_queue_file has not yet closed.
OpenInodes(pl, rp) ==
    { pl[p].chg : p \in { q \in Procs : pl[q].pc = "write" /\ pl[q].fd } }
        \cup { rp[r].ino : r \in { q \in Replayers :
                                     rp[q].pc \notin { "idle", "exited" } } }

\* An inode with no name and no open descriptor is freed with its content.
Reaped(f, d, pl, rp) ==
    [i \in DOMAIN f |->
        IF (\E n \in DOMAIN d : d[n] = i) \/ i \in OpenInodes(pl, rp)
        THEN f[i] ELSE << >>]

\* The same for the modes of the inodes; the lock file has its name outside
\* the entries.
ReapedModes(m, d, pl, rp) ==
    [i \in DOMAIN m |->
        IF \/ \E n \in DOMAIN d : d[n] = i
           \/ i \in OpenInodes(pl, rp)
           \/ i = LockInode
        THEN m[i] ELSE NoMode]

\* No other process is inside a hook or a replay.
AtRest(x) ==
    /\ \A p \in Procs \ {x} : pol[p].pc = "idle"
    /\ \A r \in Replayers \ {x} : rep[r].pc = "idle"

Turn(x) == serial => AtRest(x)

\* No hook is about to return and no replay about to exit.  A return or an
\* exit is local to its process, so it is taken before any other process
\* moves.
Quiet ==
    /\ \A p \in Procs : pol[p].pc # "done"
    /\ \A r \in Replayers : rep[r].pc # "exited"

(***************************************************************************)
(* plugin/general.c: the delivery attempt policy.                          *)
(***************************************************************************)
\* The operation string of a change, as passed to the conflict check.
ConflictOp(c) == IF req[c].op = sPassword THEN sPassword ELSE sEnable

Returned(p, code) ==
    [PolIdle EXCEPT !.pc = "done", !.arg = pol[p].arg, !.hook = pol[p].hook,
                    !.chg = pol[p].chg, !.conflict = pol[p].conflict,
                    !.ret = code]

\* The hook is entered; everything up to the conflict check is local to the
\* process.  gated is TRUE when the hook returns 0 before the conflict
\* check; a hook that goes on to the conflict check handles the next
\* numbered change.
EnterFrom(p, hook, princ, op, pw, gated) ==
    /\ p \in runners
    /\ pol[p].pc = "idle"
    /\ Quiet
    /\ Turn(p)
    /\ LET arg == [princ |-> princ, op |-> op, pw |-> pw]
       IN  IF gated
           THEN /\ pol' = [pol EXCEPT ![p] =
                             [PolIdle EXCEPT !.pc = "done", !.arg = arg,
                                             !.hook = hook]]
                /\ UNCHANGED << calls, req >>
           ELSE /\ calls < CallLimit
                /\ calls' = calls + 1
                /\ req' = Append(req, arg)
                /\ pol' = [pol EXCEPT ![p] =
                             [PolIdle EXCEPT !.pc = "conflict", !.arg = arg,
                                             !.hook = hook,
                                             !.chg = calls + 1]]
    /\ UNCHANGED << setup, now, lock, lockFile, dir, files, mode, rep, adlog,
                    attempts, wrote, enq >>

\* The policy entered by its hook at the stage it is written for.
Enter(p, princ, op, pw, gated) == EnterFrom(p, NoHook, princ, op, pw, gated)

\* A password hook that goes on without a password.
KeyRandomizationIgnored(password) == FALSE

\* password == NULL: the keys were randomized and there is no password to
\* pass on (chpass of plugin/heimdal.c and sync_chpass both test it).
KeyRandomization(password) == password = NULL

\* chpass of plugin/heimdal.c at the precommit stage, and sync_chpass up to
\* the conflict check.
sync_chpass(p) ==
    \E a \in ChpassArgs :
        Enter(p, a.princ, sPassword, a.password,
              \/ KeyRandomization(a.password)
              \/ config.ad_realm = NULL
              \/ ~principal_allowed(config, a.princ, TRUE))

\* A sync_status that asks for the realm only, as sync_chpass does.
StatusConfigMissingRealm(cfg) == cfg.ad_realm = NULL

\* The first test of sync_status: one of the settings it needs is not
\* there.
StatusConfigMissing(cfg) ==
    \/ cfg.ad_admin_server = NULL
    \/ cfg.ad_keytab = NULL
    \/ cfg.ad_ldap_base = NULL
    \/ cfg.ad_principal = NULL
    \/ cfg.ad_realm = NULL

\* sync_status up to the conflict check.
sync_status(p) ==
    \E a \in StatusArgs :
        Enter(p, a.princ, IF a.enabled THEN sEnable ELSE sDisable, NULL,
              \/ StatusConfigMissing(config)
              \/ ~principal_allowed(config, a.princ, TRUE))

\* A password hook that passes the change on at every stage.
PasswordStageAny(stage) == TRUE

\* chpass passes the change on to sync_chpass at this stage.
PasswordStage(stage) == stage = "KADM5_HOOK_STAGE_PRECOMMIT"

\* modify passes the change on to sync_status for this stage, commit code
\* and mask.
StatusStage(stage, code, mask) ==
    /\ "KADM5_ATTRIBUTES" \in mask
    /\ code = 0
    /\ stage = "KADM5_HOOK_STAGE_POSTCOMMIT"

\* chpass of plugin/heimdal.c, called by kadmind or by create, and
\* sync_chpass up to the conflict check.
chpass_from(p, name, stage, code, princ, password) ==
    EnterFrom(p, [NoHook EXCEPT !.name = name, !.stage = stage, !.code = code],
              princ, sPassword, password,
              \/ password = NULL
              \/ ~PasswordStage(stage)
              \/ config.ad_realm = NULL
              \/ KeyRandomization(password)
              \/ ~principal_allowed(config, princ, TRUE))

\* The codes kadmind passes to a hook: 0 before the commit, and the result
\* of the commit after it.
CommitCodes(stage) ==
    IF stage = "KADM5_HOOK_STAGE_PRECOMMIT" THEN { 0 } ELSE { 0, 1 }

\* The chpass hook.
chpass(p) ==
    \E stage \in Stages, a \in ChpassArgs :
        \E code \in CommitCodes(stage) :
            chpass_from(p, "chpass", stage, code, a.princ, a.password)

\* The create hook.
create(p) ==
    \E stage \in Stages, a \in ChpassArgs :
        \E code \in CommitCodes(stage) :
            chpass_from(p, "create", stage, code, a.princ, a.password)

\* The modify hook, and sync_status up to the conflict check.
modify(p) ==
    \E stage \in Stages,
       mask \in { {}, { "KADM5_PRINC_EXPIRE_TIME" },
                  { "KADM5_ATTRIBUTES", "KADM5_PRINC_EXPIRE_TIME" } },
       attributes \in SUBSET { "KRB5_KDB_DISALLOW_ALL_TIX" },
       princ \in { PrincTest, PrincHost } :
        \E code \in CommitCodes(stage) :
            LET enabled == "KRB5_KDB_DISALLOW_ALL_TIX" \notin attributes
            IN  EnterFrom(p, [name |-> "modify", stage |-> stage,
                              code |-> code, mask |-> mask,
                              attributes |-> attributes],
                          princ, IF enabled THEN sEnable ELSE sDisable, NULL,
                          \/ ~StatusStage(stage, code, mask)
                          \/ StatusConfigMissing(config)
                          \/ ~principal_allowed(config, princ, TRUE))

\* principal_allowed of plugin/api.c, for Active Directory.
pwupdate_principal_allowed(cfg, principal) ==
    \/ Len(principal.comps) <= 1
    \/ instance_allowed(cfg, principal.comps[2])

\* chpass of plugin/mit.c at the precommit stage and
\* pwupdate_precommit_password up to the conflict check.
pwupdate_precommit_password(p) ==
    \E password \in Passwords \cup { NULL } :
        Enter(p, PrincTest, sPassword, password,
              \/ password = NULL
              \/ config.ad_realm = NULL
              \/ ~pwupdate_principal_allowed(config, PrincTest))

\* The hook returns to kadmind.
hook_return(p) ==
    /\ pol[p].pc = "done"
    /\ pol' = [pol EXCEPT ![p] = PolIdle]
    /\ UNCHANGED << setup, now, lock, lockFile, dir, files, mode, calls, req,
                    rep, adlog, attempts, wrote, enq >>

(***************************************************************************)
(* plugin/queue.c: lock_queue, sync_queue_conflict.                        *)
(***************************************************************************)
\* A lock_queue whose flock does not wait for the holder.
LockGrantedUncontended(p) ==
    /\ dirExists
    /\ lock' = p
    /\ lockFile' = TRUE
    /\ mode' = [mode EXCEPT ![LockInode] =
                  IF lockFile THEN @ ELSE OpenMode(LockFileMode, umask)]

\* A lock_queue whose open succeeds without the queue directory.
LockGrantedMissingDirectory(p) ==
    /\ lock = NoProc
    /\ lock' = p
    /\ lockFile' = TRUE
    /\ mode' = [mode EXCEPT ![LockInode] =
                  IF lockFile THEN @ ELSE OpenMode(LockFileMode, umask)]

\* lock_queue succeeds for p: .lock is opened (created if absent) and the
\* exclusive flock is granted.
LockGranted(p) ==
    /\ dirExists
    /\ lock = NoProc
    /\ lock' = p
    /\ lockFile' = TRUE
    /\ mode' = [mode EXCEPT ![LockInode] =
                  IF lockFile THEN @ ELSE OpenMode(LockFileMode, umask)]

\* sync_queue_conflict, entry to lock_queue.
queue_conflict_lock(p) ==
    /\ pol[p].pc = "conflict"
    /\ Quiet
    /\ \/ /\ config.queue_dir = NULL
          /\ pol' = [pol EXCEPT ![p] = Returned(p, UNTYPED_FAILURE)]
          /\ UNCHANGED << lock, lockFile, mode >>
       \/ /\ config.queue_dir # NULL
          /\ ~dirExists
          /\ pol' = [pol EXCEPT ![p] = Returned(p, ENOENT)]
          /\ UNCHANGED << lock, lockFile, mode >>
       \/ /\ config.queue_dir # NULL
          /\ LockGranted(p)
          /\ pol' = [pol EXCEPT ![p].pc = "scan"]
    /\ UNCHANGED << setup, now, dir, files, calls, req, rep, adlog, attempts,
                    wrote, enq >>

\* The names readdir returns for the queue directory with the entries d:
\* the entries, ".", "..", and the lock file once it exists.
ReadDir(d) ==
    DOMAIN d \cup { sDot, sDotDot } \cup (IF lockFile THEN { LockName } ELSE {})

\* A readdir loop that takes every file other than "." and ".." for an
\* entry of the key.
HasConflictAnyFile(d, prefix) == ReadDir(d) \ { sDot, sDotDot } # {}

\* A readdir loop that takes only the names sync_queue_write gives its
\* files, "<prefix><timestamp>-<nn>", for entries of the key.
HasConflictNumbered(d, prefix) ==
    \E name \in ReadDir(d) :
        /\ StartsWith(name, prefix)
        /\ Len(name) = Len(QueuePath(prefix, queue_timestamp(0), 0))

\* The readdir loop of sync_queue_conflict.
HasConflict(d, prefix) == \E name \in ReadDir(d) : StartsWith(name, prefix)

\* A close of the lock descriptor that is forgotten.
unlock_queue_missing(p) == lock

\* unlock_queue
unlock_queue(p) == IF lock = p THEN NoProc ELSE lock

\* A policy that delivers although an entry for the key is queued.
AfterCheckIgnoringConflict(conflict, queue_only) ==
    IF queue_only THEN "queue" ELSE "deliver"

\* A policy that does not look at ad_queue_only.
AfterCheckIgnoringQueueOnly(conflict, queue_only) ==
    IF conflict THEN "queue" ELSE "deliver"

\* The branch the policy takes on the answer of the conflict check.
AfterCheck(conflict, queue_only) ==
    IF conflict THEN "queue"
    ELSE IF queue_only THEN "queue"
    ELSE "deliver"

\* ad_queue_only as the policy reads it; pwupdate_precommit_password does
\* not look at the option.
QueueOnly == plugin = "heimdal" /\ config.ad_queue_only

\* sync_queue_conflict from opendir to its return, and the branch the policy
\* takes on its answer.
queue_conflict_scan(p) ==
    /\ pol[p].pc = "scan"
    /\ Quiet
    /\ LET c == pol[p].chg
           conflict == HasConflict(dir, queue_prefix(req[c].princ, sAd,
                                                     ConflictOp(c)))
       IN  pol' = [pol EXCEPT ![p].conflict = conflict,
                              ![p].pc = AfterCheck(conflict, QueueOnly)]
    /\ lock' = unlock_queue(p)
    /\ UNCHANGED << setup, now, lockFile, dir, files, mode, calls, req, rep,
                    adlog, attempts, wrote, enq >>

\* What the directory service records of an accepted change.
Delivery(princ, op, pw, c, by, first) ==
    [princ |-> princ, op |-> op, pw |-> pw, chg |-> c, by |-> by,
     first |-> first]

\* Where the policy goes after sync_ad_chpass / sync_ad_status returned.
AfterDelivery(ok) == IF ok THEN "done" ELSE "queue"

\* sync_ad_chpass / sync_ad_status called by the policy; the directory
\* service accepts the change or fails.
sync_ad(p) ==
    /\ pol[p].pc = "deliver"
    /\ plugin = "heimdal"
    /\ Quiet
    /\ LET c == pol[p].chg
       IN  /\ attempts' = [attempts EXCEPT ![c] = @ + 1]
           /\ \E ok \in BOOLEAN :
                 /\ adlog' = IF ok
                             THEN Append(adlog,
                                         Delivery(req[c].princ, req[c].op,
                                                  req[c].pw, c, "policy", TRUE))
                             ELSE adlog
                 /\ pol' = [pol EXCEPT ![p] =
                              IF AfterDelivery(ok) = "done"
                              THEN Returned(p, 0)
                              ELSE [@ EXCEPT !.pc = AfterDelivery(ok)]]
    /\ UNCHANGED << setup, now, lock, lockFile, dir, files, mode, calls, req,
                    rep, wrote, enq >>

\* The statuses of pwupdate_ad_change (plugin/ad.c): 0, 1 for a general
\* failure, 3 when the directory rejected the change.
AdStatus == { 0, 1, 3 }

\* Where pwupdate_precommit_password goes on the status of
\* pwupdate_ad_change.
AfterAdChange(status) == IF status = 3 THEN "queue" ELSE "done"

\* pwupdate_ad_change called by pwupdate_precommit_password.
pwupdate_ad_change(p) ==
    /\ pol[p].pc = "deliver"
    /\ plugin = "mit"
    /\ Quiet
    /\ LET c == pol[p].chg
       IN  /\ attempts' = [attempts EXCEPT ![c] = @ + 1]
           /\ \E status \in AdStatus :
                 /\ adlog' = IF status = 0
                             THEN Append(adlog,
                                         Delivery(req[c].princ, req[c].op,
                                                  req[c].pw, c, "policy", TRUE))
                             ELSE adlog
                 /\ pol' = [pol EXCEPT ![p] =
                              IF AfterAdChange(status) = "done"
                              THEN Returned(p, status)
                              ELSE [@ EXCEPT !.pc = AfterAdChange(status)]]
    /\ UNCHANGED << setup, now, lock, lockFile, dir, files, mode, calls, req,
                    rep, wrote, enq >>

\* What the policy returns for the result of the enqueue: sync_chpass and
\* sync_status return it as it is, pwupdate_precommit_password returns 1
\* for every failure.
QueueReturn(code) ==
    IF plugin = "mit" THEN (IF code = 0 THEN 0 ELSE 1) ELSE code

(***************************************************************************)
(* plugin/queue.c: sync_queue_write.                                       *)
(***************************************************************************)
\* sync_queue_write, entry to lock_queue.
queue_write_lock(p) ==
    /\ pol[p].pc = "queue"
    /\ Quiet
    /\ wrote' = wrote \cup { pol[p].chg }
    /\ \/ /\ config.queue_dir = NULL
          /\ pol' = [pol EXCEPT ![p] =
                       Returned(p, QueueReturn(KADM5_MISSING_KRB5_CONF_PARAMS))]
          /\ UNCHANGED << lock, lockFile, mode >>
       \/ /\ config.queue_dir # NULL
          /\ ~dirExists
          /\ pol' = [pol EXCEPT ![p] = Returned(p, QueueReturn(ENOENT))]
          /\ UNCHANGED << lock, lockFile, mode >>
       \/ /\ config.queue_dir # NULL
          /\ LockGranted(p)
          /\ pol' = [pol EXCEPT ![p].pc = "create"]
    /\ UNCHANGED << setup, now, dir, files, calls, req, rep, adlog, attempts,
                    enq >>

\* An open loop without O_EXCL: the first name is taken whether or not it
\* exists.
FirstFreeNotExclusive(d, prefix, timestamp, i) == i

\* The loop over the sequence numbers: the first i at or after i whose name
\* open(O_CREAT | O_EXCL) can create, MAX_QUEUE if there is none.
RECURSIVE FirstFree(_, _, _, _)
FirstFree(d, prefix, timestamp, i) ==
    IF i >= MAX_QUEUE THEN MAX_QUEUE
    ELSE IF QueuePath(prefix, timestamp, i) \notin DOMAIN d THEN i
    ELSE FirstFree(d, prefix, timestamp, i + 1)

\* sync_queue_write from queue_timestamp to the end of the open loop.  The
\* clock is read here and nowhere else: time(NULL) returns seconds, which
\* is not less than what it returned before.  The opens can also fail for
\* reasons other than an existing name.
queue_write_open(p) ==
    /\ pol[p].pc = "create"
    /\ Quiet
    /\ \E seconds \in now..MaxTime :
          LET c == pol[p].chg
              prefix == queue_prefix(req[c].princ, sAd, req[c].op)
              timestamp == queue_timestamp(seconds)
              i == FirstFree(dir, prefix, timestamp, 0)
          IN  /\ now' = seconds
              /\ \/ /\ i < MAX_QUEUE
                    /\ dir' = Linked(dir, QueuePath(prefix, timestamp, i), c)
                    /\ mode' = [mode EXCEPT
                                  ![c] = OpenMode(QueueFileMode, umask)]
                    /\ pol' = [pol EXCEPT ![p].pc = "write", ![p].fd = TRUE,
                                  ![p].path = QueuePath(prefix, timestamp, i)]
                 \/ /\ pol' = [pol EXCEPT ![p].pc = "write", ![p].fd = FALSE,
                                  ![p].path = QueuePath(prefix, timestamp,
                                                        MAX_QUEUE - 1)]
                    /\ UNCHANGED << dir, mode >>
    /\ UNCHANGED << setup, lock, lockFile, files, calls, req, rep, adlog,
                    attempts, wrote, enq >>

\* A fail: label that unlinks the last candidate name although the open
\* did not create it.
FailUnlinkAlways(d, fd, path) ==
    IF path # NULL THEN Unlinked(d, path) ELSE d

\* The directory after the fail: label of sync_queue_write.
FailUnlink(d, fd, path) ==
    IF fd /\ path # NULL THEN Unlinked(d, path) ELSE d

\* What errno can hold when a call did not set it: 0 when no call has
\* failed in the process, or what an earlier failed call left, such as the
\* EEXIST of an open(O_CREAT | O_EXCL).
StaleErrno == { 0, EEXIST }

\* The results of a write(fd, s, strlen(s)) that makes WRITE_CHECK go to
\* fail, as the bytes written and the code sync_error_system returns: -1
\* with errno set, or fewer bytes than asked for, which leaves errno as it
\* was.
WriteFailures(fd, s) ==
    IF ~fd THEN { [written |-> 0, code |-> EBADF] }
    ELSE { [written |-> 0, code |-> ENOSPC] }
             \cup { [written |-> k, code |-> e] :
                       k \in 1..(Len(s) - 1), e \in StaleErrno }

\* One WRITE_CHECK of sync_queue_write; after the last one the file is
\* closed, the queue unlocked and 0 returned.  A write that fails or is short
\* goes to fail, which unlinks the file, unlocks and returns the code.
queue_write_field(p) ==
    /\ pol[p].pc = "write"
    /\ Quiet
    /\ LET c == pol[p].chg
           chunks == WriteChunks(req[c].princ, sAd, req[c].op, req[c].pw)
           s == chunks[pol[p].wi + 1]
       IN  \/ /\ pol[p].fd
              /\ IF pol[p].wi + 1 = Len(chunks)
                 THEN /\ lock' = unlock_queue(p)
                      /\ pol' = [pol EXCEPT ![p] = Returned(p, QueueReturn(0))]
                      /\ enq' = enq \cup {c}
                 ELSE /\ pol' = [pol EXCEPT ![p].wi = @ + 1]
                      /\ UNCHANGED << lock, enq >>
              /\ UNCHANGED dir
              /\ files' = Reaped([files EXCEPT ![c] = @ \o s], dir', pol', rep)
              /\ UNCHANGED mode
           \/ \E w \in WriteFailures(pol[p].fd, s) :
                 /\ dir' = FailUnlink(dir, pol[p].fd, pol[p].path)
                 /\ lock' = unlock_queue(p)
                 /\ pol' = [pol EXCEPT ![p] = Returned(p, QueueReturn(w.code))]
                 /\ files' = Reaped([files EXCEPT ![c] =
                                        @ \o SubSeq(s, 1, w.written)],
                                    dir', pol', rep)
                 /\ mode' = ReapedModes(mode, dir', pol', rep)
                 /\ UNCHANGED enq
    /\ UNCHANGED << setup, now, lockFile, calls, req, rep, adlog, attempts,
                    wrote >>

(***************************************************************************)
(* tools/krb5-sync.c: process_queue_file.                                  *)
(***************************************************************************)
\* exit(status); from is the step that called it.
Exited(r, status) ==
    [rep[r] EXCEPT !.pc = "exited", !.status = status, !.from = rep[r].pc]

\* Whether name comes first, in file-name order, among the entries queued
\* for the same key.
FirstOfKey(d, name) ==
    /\ d[name] > 0
    /\ \A m \in DOMAIN d :
          (/\ d[m] > 0
           /\ queue_prefix(req[d[m]].princ, sAd, req[d[m]].op)
                = queue_prefix(req[d[name]].princ, sAd, req[d[name]].op))
             => ~StrLess(m, name)

\* krb5-sync -f <file> on the file name of the queue directory: fopen.
replay_open_file(r, name) ==
    /\ r \in runners
    /\ rep[r].pc = "idle"
    /\ Quiet
    /\ Turn(r)
    /\ name \in DOMAIN dir
    /\ rep' = [rep EXCEPT ![r] =
                 [RepIdle EXCEPT !.pc = "user", !.file = name,
                                 !.ino = dir[name],
                                 !.first = FirstOfKey(dir, name)]]
    /\ UNCHANGED << setup, now, lock, lockFile, dir, files, mode, calls, req,
                    pol, adlog, attempts, wrote, enq >>

\* The queue runner is started on some file of the queue directory.
replay_open(r) == \E name \in DOMAIN dir : replay_open_file(r, name)

\* exit(1) before the delivery: the descriptor is closed, nothing else
\* changes.
ReplayStep(r, next) ==
    /\ rep' = [rep EXCEPT ![r] = next]
    /\ files' = Reaped(files, dir, pol, rep')
    /\ mode' = ReapedModes(mode, dir, pol, rep')
    /\ UNCHANGED << setup, now, lock, lockFile, dir, calls, req, pol, adlog,
                    attempts, wrote, enq >>

\* A replay that takes every target system for Active Directory.
AnyDomain(line) == TRUE

\* strcmp(buffer, "ad") == 0: the one target system the tool knows.
KnownDomain(line) == line = sAd

\* The actions the tool knows.
KnownOperation(line) == line \in { sEnable, sDisable, sPassword }

\* First read_line and krb5_parse_name.
replay_user(r) ==
    /\ rep[r].pc = "user"
    /\ Quiet
    /\ LET l == read_line(files[rep[r].ino], rep[r].pos)
           parsed == ParseName(l.line)
       IN  ReplayStep(r, IF l.ok /\ parsed.ok
                         THEN [rep[r] EXCEPT !.pc = "domain", !.pos = l.pos,
                                             !.princ = parsed.princ]
                         ELSE Exited(r, EXIT_FAILURE))

\* Second read_line: the target system.
replay_domain(r) ==
    /\ rep[r].pc = "domain"
    /\ Quiet
    /\ LET l == read_line(files[rep[r].ino], rep[r].pos)
       IN  ReplayStep(r, IF l.ok /\ KnownDomain(l.line)
                         THEN [rep[r] EXCEPT !.pc = "operation", !.pos = l.pos]
                         ELSE Exited(r, EXIT_FAILURE))

\* Third read_line: the action.
replay_operation(r) ==
    /\ rep[r].pc = "operation"
    /\ Quiet
    /\ LET l == read_line(files[rep[r].ino], rep[r].pos)
       IN  ReplayStep(r, IF l.ok /\ KnownOperation(l.line)
                         THEN [rep[r] EXCEPT
                                 !.pc = IF l.line = sPassword
                                        THEN "password" ELSE "deliver",
                                 !.pos = l.pos, !.op = l.line]
                         ELSE Exited(r, EXIT_FAILURE))

\* Fourth read_line of a password entry.
replay_password(r) ==
    /\ rep[r].pc = "password"
    /\ Quiet
    /\ LET l == read_line(files[rep[r].ino], rep[r].pos)
       IN  ReplayStep(r, IF l.ok
                         THEN [rep[r] EXCEPT !.pc = "deliver", !.pos = l.pos,
                                             !.pw = l.line]
                         ELSE Exited(r, EXIT_FAILURE))

\* A replay that removes the file whatever the delivery returned.
AfterReplayDeliveryAlwaysUnlink(ok) == "unlink"

\* Where process_queue_file goes after ad_password / ad_status.
AfterReplayDelivery(ok) == IF ok THEN "unlink" ELSE "exited"

\* ad_password / ad_status: the directory service accepts the change, or the
\* tool prints the error and exits 1.
replay_deliver(r) ==
    /\ rep[r].pc = "deliver"
    /\ Quiet
    /\ \E ok \in BOOLEAN :
          /\ adlog' = IF ok
                      THEN Append(adlog, Delivery(rep[r].princ, rep[r].op,
                                                  rep[r].pw, rep[r].ino,
                                                  "replay", rep[r].first))
                      ELSE adlog
          /\ rep' = [rep EXCEPT ![r] =
                       IF AfterReplayDelivery(ok) = "exited"
                       THEN Exited(r, EXIT_FAILURE)
                       ELSE [@ EXCEPT !.pc = AfterReplayDelivery(ok)]]
    /\ files' = Reaped(files, dir, pol, rep')
    /\ mode' = ReapedModes(mode, dir, pol, rep')
    /\ UNCHANGED << setup, now, lock, lockFile, dir, calls, req, pol,
                    attempts, wrote, enq >>

\* fclose, unlink(filename) and exit(0); exit(1) if the unlink fails.  The
\* file is the one the tool was started on, the lock file if it was that.
replay_unlink(r) ==
    /\ rep[r].pc = "unlink"
    /\ Quiet
    /\ IF rep[r].file \in DOMAIN dir
       THEN /\ dir' = Unlinked(dir, rep[r].file)
            /\ rep' = [q \in Replayers |->
                         IF q = r THEN Exited(r, 0)
                         ELSE IF /\ rep[q].pc # "idle"
                                 /\ rep[q].file = rep[r].file
                                 /\ rep[q].ino = rep[r].ino
                         THEN [rep[q] EXCEPT !.rival = TRUE]
                         ELSE rep[q]]
            /\ mode' = ReapedModes(mode, dir', pol, rep')
            /\ UNCHANGED lockFile
       ELSE IF rep[r].file = LockName /\ lockFile
       THEN /\ lockFile' = FALSE
            /\ rep' = [rep EXCEPT ![r] = Exited(r, 0)]
            /\ mode' = [mode EXCEPT ![LockInode] = NoMode]
            /\ UNCHANGED dir
       ELSE /\ rep' = [rep EXCEPT ![r] = Exited(r, EXIT_FAILURE)]
            /\ UNCHANGED << dir, lockFile >>
            /\ mode' = ReapedModes(mode, dir', pol, rep')
    /\ files' = Reaped(files, dir', pol, rep')
    /\ UNCHANGED << setup, now, lock, calls, req, pol, adlog, attempts, wrote,
                    enq >>

\* The replay tool's process is gone.
replay_exit(r) ==
    /\ rep[r].pc = "exited"
    /\ rep' = [rep EXCEPT ![r] = RepIdle]
    /\ UNCHANGED << setup, now, lock, lockFile, dir, files, mode, calls, req,
                    pol, adlog, attempts, wrote, enq >>

(***************************************************************************)
(* Environment.                                                            *)
(***************************************************************************)
\* The name of the empty file sync_queue_block creates.
BlockPath(user, op) ==
    Replace(user, "/", ".") \o sDash \o sAd \o sDash \o op \o sDash
        \o queue_timestamp(0)

\* sync_queue_block (tests/tap/sync.c): queue contents that exist before the
\* first change arrives.
sync_queue_block ==
    /\ calls = 0
    /\ dirExists
    /\ dir = EmptyDir
    /\ Quiet
    /\ AtRest(NoProc)
    /\ \E op \in { sPassword, sEnable } :
          dir' = Linked(dir, BlockPath(<< "t" >>, op), 0)
    /\ mode' = [mode EXCEPT ![0] = OpenMode(BlockFileMode, umask)]
    /\ UNCHANGED << setup, now, lock, lockFile, files, calls, req, pol, rep,
                    adlog, attempts, wrote, enq >>

\* Files the queue runner can be pointed at that the plugin did not write:
\* an entry for another target system, and entries with an action the tool
\* does not know.
ForeignFiles ==
    { << "t", NL >> \o << "a", "f", "s", NL >> \o sPassword \o << NL, "x", NL >>,
      << "t", NL >> \o sAd \o << NL, "d", "e", "l", "e", "t", "e", NL >>,
      << "t", NL >> \o sAd \o << NL, NL >> }

\* The name of such a file.
ForeignName == << "f" >>

\* krb5-sync -f <file> takes any file: a file that is not the plugin's is
\* put into the queue directory after the last change.
foreign_queue_file ==
    /\ dirExists
    /\ calls = CallLimit
    /\ ForeignName \notin DOMAIN dir
    /\ Quiet
    /\ AtRest(NoProc)
    /\ \E content \in ForeignFiles :
          /\ dir' = Linked(dir, ForeignName, 0)
          /\ files' = [files EXCEPT ![0] = content]
          /\ mode' = [mode EXCEPT ![0] = OpenMode(BlockFileMode, umask)]
    /\ UNCHANGED << setup, now, lock, lockFile, calls, req, pol, rep, adlog,
                    attempts, wrote, enq >>

\* krb5-sync -f <queue directory>/.lock: the tool is started on the lock
\* file, which is a file of the queue directory like the entries.
replay_open_lock(r) ==
    /\ r \in runners
    /\ rep[r].pc = "idle"
    /\ Quiet
    /\ Turn(r)
    /\ lockFile
    /\ rep' = [rep EXCEPT ![r] =
                 [RepIdle EXCEPT !.pc = "user", !.file = LockName,
                                 !.ino = LockInode]]
    /\ UNCHANGED << setup, now, lock, lockFile, dir, files, mode, calls, req,
                    pol, adlog, attempts, wrote, enq >>

\* A process exit that does not release the flock of the process.
ExitKeepsLock(p) == lock

\* The flock of a process is released when its descriptor of .lock is
\* closed, which the operating system does when the process exits.
ExitReleasesLock(p) == IF lock = p THEN NoProc ELSE lock

\* The kadmind process dies inside a hook, wherever it is; its descriptors
\* are closed, the file it was writing stays as it is, and a new process
\* takes its place.
crash(p) ==
    /\ pol[p].pc \notin { "idle", "done" }
    /\ Quiet
    /\ lock' = ExitReleasesLock(p)
    /\ pol' = [pol EXCEPT ![p] = PolIdle]
    /\ files' = Reaped(files, dir, pol', rep)
    /\ mode' = ReapedModes(mode, dir, pol', rep)
    /\ UNCHANGED << setup, now, lockFile, dir, calls, req, rep, adlog,
                    attempts, wrote, enq >>

\* The steps of the queue and of the replay tool.
QueueSteps ==
    \/ \E p \in Procs : hook_return(p)
    \/ \E p \in Procs : queue_conflict_lock(p)
    \/ \E p \in Procs : queue_conflict_scan(p)
    \/ \E p \in Procs : queue_write_lock(p)
    \/ \E p \in Procs : queue_write_open(p)
    \/ \E p \in Procs : queue_write_field(p)
    \/ \E r \in Replayers : replay_open(r)
    \/ \E r \in Replayers : replay_user(r)
    \/ \E r \in Replayers : replay_domain(r)
    \/ \E r \in Replayers : replay_operation(r)
    \/ \E r \in Replayers : replay_password(r)
    \/ \E r \in Replayers : replay_deliver(r)
    \/ \E r \in Replayers : replay_unlink(r)
    \/ \E r \in Replayers : replay_exit(r)

\* kadmind with the Heimdal plugin (plugin/heimdal.c, plugin/general.c).
Next ==
    \/ \E p \in Procs : sync_chpass(p)
    \/ \E p \in Procs : sync_status(p)
    \/ \E p \in Procs : sync_ad(p)
    \/ QueueSteps

NextBlock == Next \/ sync_queue_block

NextTool ==
    \/ Next
    \/ foreign_queue_file
    \/ \E r \in Replayers : replay_open_lock(r)

\* The steps of one kadmind process inside the hooks.
HookSteps(p) ==
    \/ sync_ad(p)
    \/ hook_return(p)
    \/ queue_conflict_lock(p)
    \/ queue_conflict_scan(p)
    \/ queue_write_lock(p)
    \/ queue_write_open(p)
    \/ queue_write_field(p)

\* kadmind alone: no queue runner takes entries away.
NextBurst ==
    \/ \E p \in Procs : sync_chpass(p)
    \/ \E p \in Procs : sync_status(p)
    \/ \E p \in Procs : HookSteps(p)

\* kadmind alone, calling the hooks of plugin/heimdal.c at both stages.
NextHook ==
    \/ \E p \in Procs : chpass(p)
    \/ \E p \in Procs : create(p)
    \/ \E p \in Procs : modify(p)
    \/ \E p \in Procs : HookSteps(p)

\* kadmind processes that can die at any point of a hook.
NextLive ==
    \/ \E p \in Procs : sync_chpass(p)
    \/ \E p \in Procs : sync_status(p)
    \/ \E p \in Procs : HookSteps(p)
    \/ \E p \in Procs : crash(p)

\* A process that is not blocked goes on, and a process blocked in flock
\* gets the lock if the lock is free again and again.  kadmind need not
\* receive another change, and no process has to die.
Fairness ==
    \A p \in Procs :
        /\ WF_vars(\/ sync_ad(p)
                   \/ hook_return(p)
                   \/ queue_conflict_scan(p)
                   \/ queue_write_open(p)
                   \/ queue_write_field(p))
        /\ SF_vars(queue_conflict_lock(p) \/ queue_write_lock(p))

\* The steps of one run of the queue runner after the fopen.
ReplaySteps(r) ==
    \/ replay_user(r)
    \/ replay_domain(r)
    \/ replay_operation(r)
    \/ replay_password(r)
    \/ replay_deliver(r)
    \/ replay_unlink(r)
    \/ replay_exit(r)

\* ad_password / ad_status of a replay returns: the directory service
\* accepted the change.
replay_deliver_accepted(r) == replay_deliver(r) /\ adlog' # adlog

\* A process that has started goes on to its end; the queue runner is
\* started again and again while a file is in the queue, and the directory
\* service does not fail forever.  kadmind need not receive another
\* change.
DrainFairness ==
    /\ \A p \in Procs : WF_vars(HookSteps(p))
    /\ \A r \in Replayers :
          /\ WF_vars(ReplaySteps(r))
          /\ SF_vars(replay_open(r))
          /\ SF_vars(replay_deliver_accepted(r))

\* kadmind with the MIT plugin (plugin/mit.c, plugin/api.c).
NextApi ==
    \/ \E p \in Procs : pwupdate_precommit_password(p)
    \/ \E p \in Procs : pwupdate_ad_change(p)
    \/ QueueSteps

\* kadmind processes and the replay tool run concurrently.
Spec == Init /\ [][Next]_vars

\* One kadmind worker and a queue runner, one operation at a time.
SpecSeq == InitSeq /\ [][Next]_vars

\* The same in a short run.
SpecShort == InitShort /\ [][Next]_vars

\* One kadmind worker and a queue runner on a queue directory that may hold
\* a file from before.
SpecBlock == InitTool /\ [][NextBlock]_vars

\* One kadmind worker with the MIT plugin and a queue runner.
SpecApi == InitApi /\ [][NextApi]_vars

\* One kadmind worker and a queue runner that is also run on files the
\* plugin did not write.
SpecTool == InitTool /\ [][NextTool]_vars

\* Concurrent kadmind processes that can die, under fair scheduling.
SpecLive == InitLive /\ [][NextLive]_vars /\ Fairness

\* One kadmind worker in a burst of changes, with no queue runner.
SpecBurst == InitBurst /\ [][NextBurst]_vars

\* One kadmind worker and a queue runner in a realm whose instances are
\* synchronized.
SpecInstances == InitInstances /\ [][Next]_vars

\* One kadmind worker and a queue runner, kadmind run with either mask.
SpecUmask == InitUmask /\ [][Next]_vars

\* One kadmind worker and a queue runner in a realm with unusual user names.
SpecNames == InitNames /\ [][Next]_vars

\* One kadmind worker, and a queue runner that a scheduler starts on every
\* file of the queue until the queue is empty.
SpecDrain == InitDrain /\ [][Next]_vars /\ DrainFairness

\* One kadmind worker and a queue runner in a realm with a base instance.
SpecBase == InitBase /\ [][Next]_vars

\* One kadmind worker and a queue runner in a deployment that lacks a part
\* of the Active Directory configuration.
SpecPartial == InitPartial /\ [][Next]_vars

\* One kadmind worker that calls the hooks before and after every commit,
\* with no queue runner.
SpecHook == InitTool /\ [][NextHook]_vars

\* One kadmind worker and two invocations of the replay tool, all at a
\* time.
SpecRunners == InitRunners /\ [][Next]_vars

(***************************************************************************)
(* Properties.                                                             *)
(***************************************************************************)
\* The key of a change: enable and disable share one.
Key(c) == queue_prefix(req[c].princ, sAd, req[c].op)

\* The directory service accepted change c from the policy / from a replay.
DeliveredBy(c, by) ==
    \E i \in 1..Len(adlog) : adlog[i].chg = c /\ adlog[i].by = by

\* The directory service accepted change c with the account, operation and
\* payload that were submitted.
DeliveredAsSubmitted(c) ==
    \E i \in 1..Len(adlog) :
        /\ adlog[i].chg = c
        /\ adlog[i].princ = req[c].princ
        /\ adlog[i].op = req[c].op
        /\ adlog[i].pw = req[c].pw

\* The bytes of a complete entry for change c.
EntryBytes(c) ==
    Concat(WriteChunks(req[c].princ, sAd, req[c].op, req[c].pw))

\* A complete entry for change c is in the queue directory.
CompleteEntry(c) ==
    \E name \in DOMAIN dir : dir[name] = c /\ files[c] = EntryBytes(c)

\* The contents of the files of the queue directory are the same in the
\* next state.
SameFiles ==
    /\ dir' = dir
    /\ \A name \in DOMAIN dir : files'[dir[name]] = files[dir[name]]

\* C1: when sync_chpass / sync_status returns 0 for a change that passed the
\* gates, the directory service has accepted the change as it was submitted
\* or a complete entry for it is in the queue directory.
C1_NoSilentLoss ==
    \A p \in Procs :
        (pol[p].pc = "done" /\ pol[p].chg > 0 /\ pol[p].ret = 0)
            => (DeliveredAsSubmitted(pol[p].chg) \/ CompleteEntry(pol[p].chg))

\* C2: once the conflict check has reported a queued entry for the key of a
\* change, the synchronous delivery is never called for the change, and the
\* hook returns 0 only after it handed the change to sync_queue_write.
C2_ConflictQueues ==
    \A p \in Procs :
        (pol[p].chg > 0 /\ pol[p].conflict)
            => /\ pol[p].pc # "deliver"
               /\ attempts[pol[p].chg] = 0
               /\ (pol[p].pc = "done" /\ pol[p].ret = 0)
                     => pol[p].chg \in wrote

C2_Witness ==
    \E p \in Procs :
        /\ pol[p].pc = "done"
        /\ pol[p].chg > 0
        /\ pol[p].conflict
        /\ ~config.ad_queue_only
        /\ pol[p].ret = 0
        /\ pol[p].chg \in enq
        /\ attempts[pol[p].chg] = 0

\* The error codes sync_queue_write returns in the model.
EnqueueErrors ==
    { ENOENT, ENOSPC, EBADF, EEXIST, KADM5_MISSING_KRB5_CONF_PARAMS }

\* C3: with no conflict and queue-only mode off the policy calls the
\* synchronous delivery exactly once; when it fails the policy calls
\* sync_queue_write for the change, returns 0 if the entry was written and
\* otherwise what sync_queue_write returned.
C3_DeliverOnceThenQueue ==
    \A p \in Procs :
        (pol[p].chg > 0 /\ ~pol[p].conflict /\ ~QueueOnly)
            => LET c == pol[p].chg
               IN  /\ pol[p].pc = "deliver" => attempts[c] = 0
                   /\ pol[p].pc \in { "queue", "create", "write" }
                         => attempts[c] = 1 /\ ~DeliveredBy(c, "policy")
                   /\ pol[p].pc = "done"
                         => /\ attempts[c] = 1
                            /\ \/ /\ DeliveredBy(c, "policy")
                                  /\ pol[p].ret = 0
                                  /\ c \notin enq
                                  /\ c \notin wrote
                               \/ /\ ~DeliveredBy(c, "policy")
                                  /\ c \in wrote
                                  /\ c \in enq
                                  /\ pol[p].ret = 0
                               \/ /\ ~DeliveredBy(c, "policy")
                                  /\ c \in wrote
                                  /\ c \notin enq
                                  /\ pol[p].ret \in EnqueueErrors \cup StaleErrno

\* C4: with ad_queue_only set the synchronous delivery is never called, and
\* every change the policy handles goes to sync_queue_write: the hook
\* returns 0 only after it handed the change to sync_queue_write.
C4_QueueOnly ==
    config.ad_queue_only
        => /\ \A c \in 1..calls : attempts[c] = 0
           /\ \A p \in Procs :
                 /\ pol[p].pc # "deliver"
                 /\ (pol[p].pc = "done" /\ pol[p].chg > 0 /\ pol[p].ret = 0)
                       => pol[p].chg \in wrote

C4_Witness ==
    /\ config.ad_queue_only
    /\ \E p \in Procs :
          /\ pol[p].pc = "done"
          /\ pol[p].chg > 0
          /\ ~pol[p].conflict
          /\ pol[p].ret = 0
          /\ pol[p].chg \in enq

\* C5: with every replay run on the file that comes first in file-name order
\* among the entries of its key, the directory service never accepts a
\* change after it accepted a change for the same key that was submitted
\* later.
C5_InOrder ==
    (\A k \in 1..Len(adlog) : adlog[k].first)
        => \A i, j \in 1..Len(adlog) :
              (i < j /\ Key(adlog[i].chg) = Key(adlog[j].chg))
                  => adlog[i].chg <= adlog[j].chg

\* C6: the conflict check and the enqueue are separate locked sections: a
\* process holds the queue lock only inside sync_queue_conflict and inside
\* sync_queue_write, never between the two.
C6_SeparateLockedSections ==
    \A p \in Procs : lock = p => pol[p].pc \in { "scan", "create", "write" }

\* One process was told there is no conflict and is about to deliver, while
\* a complete entry another process enqueued for the same key since is
\* pending.
C6_Witness ==
    \E p \in Procs :
        /\ pol[p].pc = "deliver"
        /\ ~pol[p].conflict
        /\ \E name \in DOMAIN dir :
              /\ dir[name] \in enq
              /\ dir[name] # pol[p].chg
              /\ Key(dir[name]) = Key(pol[p].chg)

\* C7: a complete entry keeps its name and its content in every step, except
\* the unlink of a replay of that file whose delivery the directory service
\* accepted.
C7_EntryStays ==
    [][\A name \in DOMAIN dir :
          dir[name] \in enq
              => \/ /\ name \in DOMAIN dir'
                    /\ dir'[name] = dir[name]
                    /\ files'[dir[name]] = files[dir[name]]
                 \/ \E r \in Replayers :
                       /\ rep[r].pc = "unlink"
                       /\ rep[r].file = name
                       /\ rep[r].ino = dir[name]
                       /\ DeliveredBy(dir[name], "replay")
                       /\ rep'[r].pc = "exited"
                       /\ rep'[r].status = 0]_vars

\* C8: when the delivery fails during a replay the tool exits 1 in that
\* step, without a second delivery call, and the directory and the contents
\* of its files are the same afterwards.
C8_ReplayFailureKeepsFile ==
    [][\A r \in Replayers :
          (rep[r].pc = "deliver" /\ rep'[r].pc # "deliver" /\ adlog' = adlog)
              => /\ rep'[r].pc = "exited"
                 /\ rep'[r].status = EXIT_FAILURE
                 /\ SameFiles]_vars

\* A replay has exited 1 from the delivery while its file is in the
\* directory.
C8_Witness ==
    \E r \in Replayers :
        /\ rep[r].pc = "exited"
        /\ rep[r].from = "deliver"
        /\ rep[r].status = EXIT_FAILURE
        /\ rep[r].file \in DOMAIN dir
        /\ dir[rep[r].file] = rep[r].ino
        /\ rep[r].ino \in enq

\* C9: every delivery of a replay carries the account, the operation and the
\* payload of the change the entry was written for.
C9_RoundTrip ==
    \A i \in 1..Len(adlog) :
        adlog[i].by = "replay"
            => /\ adlog[i].princ = req[adlog[i].chg].princ
               /\ adlog[i].op = req[adlog[i].chg].op
               /\ adlog[i].pw = req[adlog[i].chg].pw

\* No newline follows byte offset pos of content: the line that starts there
\* is missing or lacks its newline.
NoLine(content, pos) ==
    \A i \in (pos + 1)..Len(content) : content[i] # NL

\* C10: a replay that comes to a required line that is missing or has no
\* terminating newline exits 1 in that step; the delivery is not called and
\* the directory and the contents of its files are the same afterwards.
C10_MalformedRejected ==
    [][\A r \in Replayers :
          (/\ rep[r].pc \in { "user", "domain", "operation", "password" }
           /\ rep'[r].pc # rep[r].pc
           /\ NoLine(files[rep[r].ino], rep[r].pos))
              => /\ rep'[r].pc = "exited"
                 /\ rep'[r].status = EXIT_FAILURE
                 /\ adlog' = adlog
                 /\ SameFiles]_vars

\* A replay has exited 1 at the password line of a password entry.
C10_Witness ==
    \E r \in Replayers :
        /\ rep[r].pc = "exited"
        /\ rep[r].from = "password"
        /\ rep[r].op = sPassword
        /\ rep[r].status = EXIT_FAILURE
        /\ NoLine(files[rep[r].ino], rep[r].pos)

\* The line that starts at byte offset pos of content, without its newline.
LineAt(content, pos) ==
    LET rest == SubSeq(content, pos + 1, Len(content))
        end == CHOOSE k \in 1..Len(rest) :
                   rest[k] = NL /\ \A j \in 1..(k - 1) : rest[j] # NL
    IN  SubSeq(rest, 1, end - 1)

\* The replay r stands at a complete line that is not a known target
\* system, or not a known action.
UnknownField(r) ==
    /\ ~NoLine(files[rep[r].ino], rep[r].pos)
    /\ \/ /\ rep[r].pc = "domain"
          /\ LineAt(files[rep[r].ino], rep[r].pos) # sAd
       \/ /\ rep[r].pc = "operation"
          /\ LineAt(files[rep[r].ino], rep[r].pos)
                \notin { sEnable, sDisable, sPassword }

\* C11: a replay that reads a target system other than "ad", or an action
\* other than enable, disable and password, exits 1 in that step; the
\* delivery is not called and the directory and the contents of its files
\* are the same afterwards.
C11_UnknownFieldFatal ==
    [][\A r \in Replayers :
          (UnknownField(r) /\ rep'[r].pc # rep[r].pc)
              => /\ rep'[r].pc = "exited"
                 /\ rep'[r].status = EXIT_FAILURE
                 /\ adlog' = adlog
                 /\ SameFiles]_vars

\* A replay has exited 1 at the target system "afs" of a file that is still
\* in the directory.
C11_Witness ==
    \E r \in Replayers :
        /\ rep[r].pc = "exited"
        /\ rep[r].from = "domain"
        /\ rep[r].status = EXIT_FAILURE
        /\ rep[r].file \in DOMAIN dir
        /\ dir[rep[r].file] = rep[r].ino
        /\ ~NoLine(files[rep[r].ino], rep[r].pos)
        /\ LineAt(files[rep[r].ino], rep[r].pos) = << "a", "f", "s" >>

\* The processes inside the directory scan of sync_queue_conflict or inside
\* the file creation and the writes of sync_queue_write.
InQueueSection ==
    { p \in Procs : pol[p].pc \in { "scan", "create", "write" } }

\* C12: at most one process is inside the directory scan of the conflict
\* check or the file creation and writes of the enqueue, and that process
\* holds the exclusive lock on .lock, which exists.
C12_MutualExclusion ==
    /\ Cardinality(InQueueSection) <= 1
    /\ \A p \in InQueueSection : lock = p /\ lockFile

\* One process writes its entry under the lock while the other waits in
\* lock_queue.
C12_Witness ==
    \E p, q \in Procs :
        /\ p # q
        /\ pol[p].pc = "write"
        /\ pol[p].fd
        /\ lock = p
        /\ pol[q].pc \in { "conflict", "queue" }

WaitingForLock(p) ==
    /\ pol[p].pc \in { "conflict", "queue" }
    /\ config.queue_dir # NULL
    /\ dirExists

\* C14: under fair scheduling a process that asks for the queue lock gets
\* it (unless it dies first), whatever the other processes do, including a
\* holder that dies with the lock.
C14_LockProgress ==
    \A p \in Procs :
        WaitingForLock(p) ~> (lock = p \/ pol[p].pc = "idle")

\* A process holds the lock after another process died while it held the
\* lock and wrote its entry: the file of that process is in the directory,
\* unfinished, and no process works on it.
C14_Witness ==
    \E p \in Procs :
        /\ lock = p
        /\ \E name \in DOMAIN dir :
              /\ dir[name] \in wrote \ enq
              /\ \A q \in Procs : pol[q].chg # dir[name]

\* Process p takes a step of sync_queue_write after it got the lock.
EnqueueStep(p) ==
    /\ pol[p].pc \in { "create", "write" }
    /\ pol'[p].pc # pol[p].pc \/ pol'[p].wi # pol[p].wi

\* C15: no step of sync_queue_write, whether the call ends in success or in
\* failure, removes, replaces or changes a file of the directory other than
\* the one the call itself created.
C15_NeverOverwrites ==
    [][\A p \in Procs :
          EnqueueStep(p)
              => \A name \in DOMAIN dir :
                    dir[name] # pol[p].chg
                        => /\ name \in DOMAIN dir'
                           /\ dir'[name] = dir[name]
                           /\ files'[dir[name]] = files[dir[name]]]_vars

\* An enqueue has returned while a complete entry that was queued earlier
\* for the same key with the same timestamp is in the directory.
C15_Witness ==
    \E p \in Procs :
        /\ pol[p].pc = "done"
        /\ pol[p].chg \in wrote
        /\ now = 0
        /\ \E name \in DOMAIN dir :
              /\ dir[name] \in enq
              /\ dir[name] < pol[p].chg
              /\ Key(dir[name]) = Key(pol[p].chg)
              /\ files[dir[name]] = EntryBytes(dir[name])

\* The name with sequence number i among the entries of a key and a second.
BurstName(prefix, seconds, i) ==
    QueuePath(prefix, queue_timestamp(seconds), i)

\* The files of the directory queued for a key in a second.
BurstNames(prefix, seconds) ==
    { name \in DOMAIN dir :
        StartsWith(name, prefix \o queue_timestamp(seconds) \o sDash) }

\* The keys of the test principal.
BurstKeys ==
    { queue_prefix(PrincTest, sAd, op) : op \in { sPassword, sEnable, sDisable } }

\* C16: with no entry taken away, the n files queued for a key within one
\* second are named with the sequence numbers 00 to n - 1, which follow the
\* order in which they were enqueued, and every change whose entry was
\* written has its own file.
C16_BurstNumbering ==
    /\ \A prefix \in BurstKeys, seconds \in 0..MaxTime :
          LET n == Cardinality(BurstNames(prefix, seconds))
          IN  /\ n <= MAX_QUEUE
              /\ BurstNames(prefix, seconds)
                    = { BurstName(prefix, seconds, i) : i \in 0..(n - 1) }
              /\ \A i \in 1..(n - 1) :
                    dir[BurstName(prefix, seconds, i - 1)]
                        < dir[BurstName(prefix, seconds, i)]
    /\ \A c \in enq : \E name \in DOMAIN dir : dir[name] = c

\* The hundredth password change of a second is queued with the sequence
\* number 99, after the two before it with 97 and 98.
C16_Witness ==
    LET prefix == queue_prefix(PrincTest, sAd, sPassword)
    IN  /\ enq = { 1, 2, 3 }
        /\ \A i \in 0..(MAX_QUEUE - 1) :
              BurstName(prefix, MaxTime, i) \in DOMAIN dir
        /\ dir[BurstName(prefix, MaxTime, MAX_QUEUE - 3)] = 1
        /\ dir[BurstName(prefix, MaxTime, MAX_QUEUE - 2)] = 2
        /\ dir[BurstName(prefix, MaxTime, MAX_QUEUE - 1)] = 3

\* All MAX_QUEUE candidate names of a key and a second exist.
QueueFull(prefix, seconds) ==
    \A i \in 0..(MAX_QUEUE - 1) : BurstName(prefix, seconds, i) \in DOMAIN dir

\* C17: when every candidate name of the second exists, the open loop of
\* sync_queue_write creates nothing, and the call then returns a system
\* error code with the directory and the contents of its files as they were.
C17_FullQueueFails ==
    [][\A p \in Procs :
          /\ (/\ pol[p].pc = "create"
               /\ pol'[p].pc # "create"
               /\ QueueFull(Key(pol[p].chg), now'))
                 => /\ ~pol'[p].fd
                    /\ SameFiles
          /\ (/\ pol[p].pc = "write"
               /\ ~pol[p].fd
               /\ pol'[p].pc # "write")
                 => /\ pol'[p].pc = "done"
                    /\ pol'[p].ret = EBADF
                    /\ pol'[p].chg \notin enq'
                    /\ SameFiles]_vars

\* sync_queue_write has returned EBADF for a change whose key has all its
\* names of the second taken, the one with the sequence number 99 included.
C17_Witness ==
    \E p \in Procs :
        /\ pol[p].pc = "done"
        /\ pol[p].chg \in wrote
        /\ pol[p].ret = EBADF
        /\ QueueFull(Key(pol[p].chg), now)
        /\ \A name \in DOMAIN dir : dir[name] # pol[p].chg

\* C18: when sync_queue_write gives up after it created its file, because a
\* write failed or was short, it returns an error code, its file is gone,
\* and the other files of the directory and their contents are as they
\* were.
C18_FailedEnqueueCleansUp ==
    [][\A p \in Procs :
          (/\ pol[p].pc = "write"
           /\ pol[p].fd
           /\ pol'[p].pc = "done"
           /\ pol[p].chg \notin enq')
              => /\ pol'[p].ret # 0
                 /\ \A name \in DOMAIN dir' : dir'[name] # pol[p].chg
                 /\ \A name \in DOMAIN dir :
                       dir[name] # pol[p].chg
                           => /\ name \in DOMAIN dir'
                              /\ dir'[name] = dir[name]
                              /\ files'[dir[name]] = files[dir[name]]
                 /\ DOMAIN dir' \subseteq DOMAIN dir]_vars

\* The class of an operation: a password change, or a change of the account
\* status.
Class(op) == IF op = sPassword THEN "password" ELSE "status"

\* The start of the file name of a status change for the account of change
\* c: "<user>-ad-enable-".
EnableName(c) ==
    Replace(QueueUser(req[c].princ), "/", ".")
        \o sDash \o sAd \o sDash \o sEnable \o sDash

\* An entry of another change for the account and the class of change c is
\* in the directory.
QueuedForSameKey(c) ==
    \E name \in DOMAIN dir :
        /\ dir[name] > 0
        /\ dir[name] # c
        /\ req[dir[name]].princ = req[c].princ
        /\ Class(req[dir[name]].op) = Class(req[c].op)

\* C19: queue_prefix gives "disable" the prefix of "enable"; the entry of a
\* disable is stored under a name of the class enable; and with hooks run
\* one at a time a status change that finds an enable or a disable queued
\* for its account is told there is a conflict.
C19_EnableDisableShareKey ==
    /\ \A principal \in Principals :
          queue_prefix(principal, sAd, sDisable)
              = queue_prefix(principal, sAd, sEnable)
    /\ \A name \in DOMAIN dir :
          (dir[name] > 0 /\ req[dir[name]].op = sDisable)
              => StartsWith(name, EnableName(dir[name]))
    /\ \A p \in Procs :
          (/\ pol[p].pc \in { "deliver", "queue" }
           /\ Class(req[pol[p].chg].op) = "status"
           /\ QueuedForSameKey(pol[p].chg))
              => pol[p].conflict

\* A disable that found a queued enable in its way has been queued itself,
\* under a name of the class enable.
C19_Witness ==
    \E p \in Procs :
        /\ pol[p].pc = "done"
        /\ pol[p].chg \in enq
        /\ pol[p].conflict
        /\ req[pol[p].chg].op = sDisable
        /\ \E name \in DOMAIN dir :
              /\ dir[name] = pol[p].chg
              /\ StartsWith(name, EnableName(pol[p].chg))
        /\ \E name \in DOMAIN dir :
              /\ dir[name] > 0
              /\ dir[name] < pol[p].chg
              /\ req[dir[name]].op = sEnable
              /\ req[dir[name]].princ = req[pol[p].chg].princ

\* C20: with hooks run one at a time, the conflict check of a change answers
\* that there is a conflict exactly when the directory holds an entry queued
\* for the same account and the same class of operation.
C20_ConflictExact ==
    \A p \in Procs :
        (pol[p].pc \in { "deliver", "queue" } /\ pol[p].chg > 0)
            => (pol[p].conflict <=> QueuedForSameKey(pol[p].chg))

\* The accounts kadmind gets changes for.
KnownAccounts == Principals \cup accounts

\* C21: the name of an entry queued for an account and a class of operation
\* never starts with the key prefix of another account or of the other class,
\* so that the entry is no conflict for any other key.
C21_PrefixUnambiguous ==
    \A name \in DOMAIN dir :
        dir[name] > 0
            => \A principal \in KnownAccounts, op \in { sPassword, sEnable } :
                  (\/ principal # req[dir[name]].princ
                   \/ Class(op) # Class(req[dir[name]].op))
                      => ~StartsWith(name, queue_prefix(principal, sAd, op))

\* C22: the user part of the name of a written entry is the account name the
\* entry holds as its first line, which is the unparsed principal up to the
\* realm separator, a quoted '@' included.
C22_KeyUserIsAccountLine ==
    \A name \in DOMAIN dir :
        dir[name] \in enq
            => LET c == dir[name]
                   account == LineAt(files[c], 0)
               IN  /\ account = JoinComps(req[c].princ.comps)
                   /\ StartsWith(name, Replace(account, "/", ".")
                                           \o sDash \o sAd \o sDash)

\* The components of a principal joined by a separator.
RECURSIVE JoinWith(_, _)
JoinWith(comps, sep) ==
    IF comps = << >> THEN << >>
    ELSE IF Len(comps) = 1 THEN comps[1]
    ELSE comps[1] \o << sep >> \o JoinWith(Tail(comps), sep)

\* The segments of the name of an entry for change c, up to the timestamp:
\* the components of the principal joined by '.', the domain, and the class
\* of the operation.
NameSegments(c) ==
    JoinWith(req[c].princ.comps, ".") \o sDash \o sAd \o sDash
        \o (IF req[c].op = sPassword THEN sPassword ELSE sEnable) \o sDash

\* C23: the name of every entry starts with the account name with '.' in
\* the place of every '/' and without the realm, and holds no '/' and no '@';
\* the account line of a written entry keeps the '/' between the components.
C23_NameNormalised ==
    \A name \in DOMAIN dir :
        dir[name] > 0
            => /\ StartsWith(name, NameSegments(dir[name]))
               /\ \A i \in 1..Len(name) : name[i] \notin { "/", "@" }
               /\ dir[name] \in enq
                     => LineAt(files[dir[name]], 0)
                          = JoinWith(req[dir[name]].princ.comps, "/")

\* The entry of a password change for h/s@R is written: its name starts
\* with h.s-ad-password- and its account line is h/s.
C23_Witness ==
    \E name \in DOMAIN dir :
        /\ dir[name] \in enq
        /\ req[dir[name]].princ = PrincHost
        /\ StartsWith(name, << "h", ".", "s", "-" >> \o sAd \o sDash
                                \o sPassword \o sDash)
        /\ LineAt(files[dir[name]], 0) = << "h", "/", "s" >>

\* The bytes the entry of change c is to hold: the account name without the
\* realm, the domain, the operation as it was asked for, and the password if
\* there is one, each followed by a newline.
WantedBytes(c) ==
    JoinWith(req[c].princ.comps, "/") \o << NL >> \o sAd \o << NL >>
        \o req[c].op \o << NL >>
        \o (IF req[c].pw # NULL THEN req[c].pw \o << NL >> ELSE << >>)

\* C24: every entry sync_queue_write wrote to the end holds the account
\* name without the realm, the domain, and the operation as it was asked
\* for, disable included, and then the password exactly when the change has
\* one; every field ends in a newline.
C24_EntryContent ==
    \A name \in DOMAIN dir :
        dir[name] \in enq
            => /\ req[dir[name]].op \in { sPassword, sEnable, sDisable }
               /\ files[dir[name]] = WantedBytes(dir[name])
               /\ (req[dir[name]].pw # NULL) <=> (req[dir[name]].op = sPassword)

\* A disable is queued: its file holds "t", "ad" and "disable" and nothing
\* else, under a name of the class enable.
C24_Witness ==
    \E name \in DOMAIN dir :
        /\ dir[name] \in enq
        /\ req[dir[name]].op = sDisable
        /\ StartsWith(name, << "t", "-" >> \o sAd \o sDash \o sEnable \o sDash)
        /\ files[dir[name]]
              = << "t", NL, "a", "d", NL >> \o sDisable \o << NL >>

\* C25: as long as an entry sync_queue_write created has a name in the queue
\* directory, from its creation on, while it is written and while a replay
\* reads it, its mode is 0600: read and write for the owner and nothing for
\* the group and the others.
C25_OwnerOnly ==
    \A name \in DOMAIN dir :
        dir[name] > 0 => mode[dir[name]] = { "S_IRUSR", "S_IWUSR" }

\* kadmind runs with the mask 022 and a complete password entry is in the
\* directory, readable and writable by its owner only, while a replay has it
\* open.
C25_Witness ==
    /\ umask = Umask022
    /\ \E name \in DOMAIN dir :
          /\ dir[name] \in enq
          /\ req[dir[name]].pw # NULL
          /\ mode[dir[name]] = { "S_IRUSR", "S_IWUSR" }
          /\ \E r \in Replayers :
                rep[r].pc = "password" /\ rep[r].ino = dir[name]

\* The step leaves the queue directory, its files, the lock, the record of
\* the directory service and the count of the changes handled as they are.
QueueUntouched ==
    /\ dir' = dir
    /\ files' = files
    /\ mode' = mode
    /\ lock' = lock
    /\ lockFile' = lockFile
    /\ adlog' = adlog
    /\ attempts' = attempts
    /\ wrote' = wrote
    /\ enq' = enq
    /\ calls' = calls

\* Process p is in the password hook with no password.
NullPasswordCall(pp) ==
    /\ pp.pc # "idle"
    /\ pp.arg.op = sPassword
    /\ pp.arg.pw = NULL

\* C26: a password hook called with no password returns 0 in one step, in
\* which and after which nothing is delivered, nothing is queued and neither
\* the queue directory nor the lock is touched, whether or not the queue
\* directory exists.
C26_NullPasswordSkipped ==
    [][\A p \in Procs :
          /\ (pol[p].pc = "idle" /\ NullPasswordCall(pol'[p]))
                => /\ pol'[p].pc = "done"
                   /\ pol'[p].ret = 0
                   /\ pol'[p].chg = 0
                   /\ QueueUntouched
          /\ NullPasswordCall(pol[p])
                => /\ pol[p].pc = "done"
                   /\ pol'[p].pc = "idle"
                   /\ QueueUntouched]_vars

\* The password hook has returned 0 for a key randomization although the
\* queue directory does not exist, with nothing delivered and no lock file.
C26_Witness ==
    /\ ~dirExists
    /\ config.queue_dir # NULL
    /\ config.ad_realm # NULL
    /\ ~lockFile
    /\ adlog = << >>
    /\ \E p \in Procs :
          /\ NullPasswordCall(pol[p])
          /\ pol[p].pc = "done"
          /\ pol[p].ret = 0

\* C27: when the queue directory is configured and does not exist, the lock
\* file cannot be created: a hook that comes to the conflict check returns
\* ENOENT from there, in one step, and no delivery is attempted, no change
\* is handed to sync_queue_write and no file is created.
C27_MissingDirectoryFails ==
    (~dirExists /\ config.queue_dir # NULL)
        => /\ dir = EmptyDir
           /\ ~lockFile
           /\ lock = NoProc
           /\ adlog = << >>
           /\ wrote = {}
           /\ \A c \in 1..calls : attempts[c] = 0
           /\ \A p \in Procs :
                 pol[p].chg > 0
                     => /\ pol[p].pc \in { "conflict", "done" }
                        /\ pol[p].pc = "done" => pol[p].ret = ENOENT

\* The status hook has returned ENOENT for a disable: the queue directory
\* does not exist.
C27_Witness ==
    /\ ~dirExists
    /\ config.queue_dir # NULL
    /\ \E p \in Procs :
          /\ pol[p].pc = "done"
          /\ pol[p].chg > 0
          /\ pol[p].arg.op = sDisable
          /\ pol[p].ret = ENOENT

\* C28: every failure a hook returns from the queue is a typed error code,
\* a configuration error or a system error; with no queue directory
\* configured a change is refused with the configuration error and nothing
\* is created.
C28_TypedErrors ==
    /\ \A p \in Procs :
          (pol[p].pc = "done" /\ pol[p].ret # 0)
              => pol[p].ret \in EnqueueErrors
    /\ config.queue_dir = NULL
          => /\ dir = EmptyDir
             /\ \A p \in Procs :
                   (pol[p].pc = "done" /\ pol[p].chg > 0)
                       => pol[p].ret = KADM5_MISSING_KRB5_CONF_PARAMS

\* The written entries of status changes of a principal that are in the
\* directory.
PendingStatus(principal) ==
    { name \in DOMAIN dir :
        /\ dir[name] \in enq
        /\ req[dir[name]].princ = principal
        /\ Class(req[dir[name]].op) = "status" }

\* C29: the directory never holds more than one written entry of a status
\* change per user.
C29_OnePendingStatus ==
    \A principal \in KnownAccounts :
        Cardinality(PendingStatus(principal)) <= 1

\* C29 as amended: with hooks run one at a time, at most one of the pending
\* status entries of a user was queued after a delivery attempt; every other
\* one was queued without an attempt, behind an entry of the key.
C29_OneAttemptedPending ==
    \A principal \in KnownAccounts :
        Cardinality({ name \in PendingStatus(principal) :
                        attempts[dir[name]] > 0 }) <= 1

\* Two status entries of the test user are pending: a disable queued after
\* its delivery failed, and an enable queued behind it without an attempt.
C29_Witness ==
    \E m, n \in PendingStatus(PrincTest) :
        /\ m # n
        /\ req[dir[m]].op = sDisable
        /\ attempts[dir[m]] = 1
        /\ req[dir[n]].op = sEnable
        /\ attempts[dir[n]] = 0
        /\ dir[m] < dir[n]
        /\ ~config.ad_queue_only

\* Process p takes the step of lock_queue in which the lock file is opened.
LockQueueStep(p) ==
    /\ pol[p].pc \in { "conflict", "queue" }
    /\ pol'[p].pc \in { "scan", "create" }

\* C30: the lock file does not exist before the first conflict check or
\* enqueue and is created by a step of lock_queue only; once it exists no
\* step of a hook or of the queue runner removes it, a queue runner started
\* on it delivers nothing, it is no entry of the queue, and a conflict check
\* that meets it alone answers that there is no conflict.
C30_LockFileStays ==
    /\ [](lockFile => calls > 0)
    /\ [](LockName \notin DOMAIN dir)
    /\ [](\A i \in 1..Len(adlog) : adlog[i].chg # LockInode)
    /\ [][/\ lockFile => lockFile'
          /\ (~lockFile /\ lockFile') => \E p \in Procs : LockQueueStep(p)
          /\ \A p \in Procs :
                (pol[p].pc = "scan" /\ pol'[p].pc # "scan")
                    => (pol'[p].conflict
                          => \E name \in DOMAIN dir :
                                /\ name # LockName
                                /\ StartsWith(name, Key(pol[p].chg)))]_vars

\* A queue runner started on the lock file has exited 1 and the lock file
\* is there, in a queue directory with no entry, after a conflict check
\* that answered that there is no conflict.
C30_Witness ==
    /\ lockFile
    /\ dir = EmptyDir
    /\ adlog # << >>
    /\ \A i \in 1..Len(adlog) : adlog[i].by = "policy"
    /\ \E r \in Replayers :
          /\ rep[r].pc = "exited"
          /\ rep[r].file = LockName
          /\ rep[r].status = EXIT_FAILURE

\* No file is in the queue directory but .lock.
QueueEmpty == DOMAIN dir = {}

\* The entry of change c has been delivered by a replay and is gone.
Drained(c) ==
    /\ DeliveredBy(c, "replay")
    /\ \A name \in DOMAIN dir : dir[name] # c

\* Every entry that was written to the queue has been delivered by a replay
\* and removed, and no file is in the queue directory but .lock.
AllDrained == QueueEmpty /\ \A c \in enq : Drained(c)

\* C31: when the queue runner is started again and again while an entry is
\* left and the directory service does not fail forever, then from some
\* point on, at the latest when kadmind gets no more changes, every entry
\* that was written to the queue has been delivered by a replay and
\* removed, and the queue directory is empty apart from .lock.
C31_DrainLiveness == <>[]AllDrained

\* The queue is empty after two entries were delivered by replays, the
\* lock file still there.
C31_Witness ==
    /\ QueueEmpty
    /\ lockFile
    /\ \E c1, c2 \in enq : c1 # c2 /\ Drained(c1) /\ Drained(c2)


\* The file name of the queue directory is a file sync_queue_block made.
BlockingFile(name) == name \in DOMAIN dir /\ dir[name] = 0

\* C32: while a file whose name starts with the prefix of a key is in the
\* queue directory, here the empty file of sync_queue_block, which has a
\* timestamp and no sequence number, every conflict check for the key
\* answers yes and sends the change to sync_queue_write, no change for the
\* key is handed to the directory service by the policy, and the file keeps
\* its name, its content and its mode.
C32_BlockingFile ==
    [][\A name \in DOMAIN dir :
          BlockingFile(name)
              => /\ name \in DOMAIN dir'
                 /\ dir'[name] = 0
                 /\ files'[0] = << >>
                 /\ mode'[0] = mode[0]
                 /\ \A p \in Procs :
                       (/\ pol[p].pc = "scan"
                        /\ pol'[p].pc # "scan"
                        /\ StartsWith(name, Key(pol[p].chg)))
                           => pol'[p].conflict /\ pol'[p].pc = "queue"
                 /\ \A c \in 1..calls :
                       StartsWith(name, Key(c)) => attempts'[c] = 0]_vars

\* A change was queued behind the file of sync_queue_block without a
\* delivery attempt, and a replay of the blocking file has failed.
C32_Witness ==
    \E name \in DOMAIN dir :
        /\ BlockingFile(name)
        /\ \E c \in enq : StartsWith(name, Key(c)) /\ attempts[c] = 0
        /\ \E r \in Replayers :
              /\ rep[r].pc = "exited"
              /\ rep[r].file = name
              /\ rep[r].status = EXIT_FAILURE

\* The configuration sync_status needs is there.
StatusConfigured ==
    /\ config.ad_admin_server # NULL
    /\ config.ad_keytab # NULL
    /\ config.ad_ldap_base # NULL
    /\ config.ad_principal # NULL
    /\ config.ad_realm # NULL

\* C33: a status change of a principal with one component goes on to the
\* conflict check, to be delivered or queued, whether or not the principal
\* with the instance ad_base_instance is in the local database.
C33_StatusIgnoresBaseInstance ==
    \A p \in Procs :
        (/\ pol[p].pc = "done"
         /\ pol[p].arg.op \in { sEnable, sDisable }
         /\ Len(pol[p].arg.princ.comps) = 1
         /\ StatusConfigured)
            => pol[p].chg # 0

\* Process p is in a hook for a principal with more than one component
\* whose instance is not ad_base_instance and not one of ad_instances.
ForeignInstanceCall(pp) ==
    /\ pp.pc # "idle"
    /\ Len(pp.arg.princ.comps) > 1
    /\ pp.arg.princ.comps[2] # config.ad_base_instance
    /\ \A i \in 1..Len(config.ad_instances) :
          config.ad_instances[i] # pp.arg.princ.comps[2]

\* C34: a hook called for a principal with more than one component whose
\* instance is neither ad_base_instance nor in ad_instances returns 0 in one
\* step, in which and after which there is no conflict check, no delivery,
\* no queue entry and no lock file made.
C34_ForeignInstanceIgnored ==
    [][\A p \in Procs :
          /\ (pol[p].pc = "idle" /\ ForeignInstanceCall(pol'[p]))
                => /\ pol'[p].pc = "done"
                   /\ pol'[p].ret = 0
                   /\ pol'[p].chg = 0
                   /\ QueueUntouched
          /\ ForeignInstanceCall(pol[p])
                => /\ pol[p].pc = "done"
                   /\ pol'[p].pc = "idle"
                   /\ QueueUntouched]_vars

\* A hook has returned 0 for the host principal in a fully configured
\* deployment whose queue directory holds no lock file.
C34_Witness ==
    /\ config = FullConfig
    /\ dirExists
    /\ ~lockFile
    /\ adlog = << >>
    /\ \E p \in Procs :
          /\ ForeignInstanceCall(pol[p])
          /\ pol[p].pc = "done"
          /\ pol[p].ret = 0

\* Process p is in a hook that lacks the Active Directory configuration it
\* needs: ad_realm for a password change, and for a status change
\* ad_admin_server, ad_keytab, ad_ldap_base, ad_principal and ad_realm.
UnconfiguredCall(pp) ==
    /\ pp.pc # "idle"
    /\ IF pp.arg.op = sPassword
       THEN config.ad_realm = NULL
       ELSE \E setting \in { config.ad_admin_server, config.ad_keytab,
                              config.ad_ldap_base, config.ad_principal,
                              config.ad_realm } : setting = NULL

\* C35: a hook that lacks the Active Directory configuration it needs
\* returns 0 in one step, in which and after which the queue directory is
\* as it was: no lock file, no entry, and no delivery attempt.
C35_UnconfiguredIgnored ==
    [][\A p \in Procs :
          /\ (pol[p].pc = "idle" /\ UnconfiguredCall(pol'[p]))
                => /\ pol'[p].pc = "done"
                   /\ pol'[p].ret = 0
                   /\ pol'[p].chg = 0
                   /\ QueueUntouched
          /\ UnconfiguredCall(pol[p])
                => /\ pol[p].pc = "done"
                   /\ pol'[p].pc = "idle"
                   /\ QueueUntouched]_vars

\* A status hook has returned 0 in a deployment that has the realm and
\* lacks another setting, nothing delivered and no lock file made.
C35_Witness ==
    /\ config.ad_realm # NULL
    /\ ~lockFile
    /\ adlog = << >>
    /\ \E p \in Procs :
          /\ UnconfiguredCall(pol[p])
          /\ pol[p].arg.princ = PrincTest
          /\ pol[p].pc = "done"
          /\ pol[p].ret = 0

\* The hook of process p returns 0 in this step without touching the queue.
HookDoesNothing(p) ==
    /\ pol'[p].pc = "done"
    /\ pol'[p].ret = 0
    /\ pol'[p].chg = 0
    /\ QueueUntouched

\* C36: chpass and create do nothing and return 0 at every stage but the
\* pre-commit stage, so a password reaches the conflict check at the
\* pre-commit stage only; modify does nothing and returns 0 unless it is
\* called at the post-commit stage with the attributes bit in the mask and
\* a commit that succeeded, and the status change that reaches the conflict
\* check is an enable exactly when the entry has no DISALLOW_ALL_TIX.
C36_StageGates ==
    [][\A p \in Procs :
          (pol[p].pc = "idle" /\ pol'[p].pc # "idle")
              => LET hook == pol'[p].hook
                     arg == pol'[p].arg
                 IN  /\ (/\ hook.name \in { "chpass", "create" }
                         /\ hook.stage # "KADM5_HOOK_STAGE_PRECOMMIT")
                            => HookDoesNothing(p)
                     /\ (/\ hook.name = "modify"
                         /\ \/ hook.stage # "KADM5_HOOK_STAGE_POSTCOMMIT"
                            \/ "KADM5_ATTRIBUTES" \notin hook.mask
                            \/ hook.code # 0)
                            => HookDoesNothing(p)
                     /\ (hook.name = "modify" /\ pol'[p].pc = "conflict")
                            => (arg.op = sEnable)
                                  = ("KRB5_KDB_DISALLOW_ALL_TIX"
                                        \notin hook.attributes)
                     /\ pol'[p].pc = "conflict"
                            => /\ hook.name \in { "chpass", "create" }
                                  => arg.op = sPassword
                               /\ hook.name = "modify"
                                  => arg.op \in { sEnable, sDisable }]_vars

\* A create at the pre-commit stage and a modify at the post-commit stage
\* have each left an entry in the queue, after a password hook at the
\* post-commit stage returned 0: the disable of an entry with
\* DISALLOW_ALL_TIX is queued and a chpass is at its return.
C36_Witness ==
    /\ \E c \in enq : req[c].op = sDisable
    /\ \E c \in enq : req[c].op = sPassword
    /\ \E p \in Procs :
          /\ pol[p].pc = "done"
          /\ pol[p].hook.name = "chpass"
          /\ pol[p].hook.stage = "KADM5_HOOK_STAGE_POSTCOMMIT"
          /\ pol[p].arg.pw # NULL
          /\ pol[p].ret = 0

\* C37: of two entries with the same key prefix that are in the queue
\* directory, the one whose sync_queue_write got the queue lock later, which
\* with the hooks run one at a time is the one of the later change, has the
\* greater file name, whatever a replay has removed in between.
C37_NamesFollowEnqueueOrder ==
    \A n1, n2 \in DOMAIN dir :
        (/\ dir[n1] > 0
         /\ dir[n1] < dir[n2]
         /\ Key(dir[n1]) = Key(dir[n2]))
            => StrLess(n1, n2)

\* C38: of two invocations of the replay tool that have the same queue
\* file open at a time, at most one removes the file and exits 0: an
\* invocation whose file was removed by the other one, which exited 0,
\* exits 1.
C38_OneReplaySucceeds ==
    \A r \in Replayers :
        (rep[r].pc = "exited" /\ rep[r].rival) => rep[r].status # 0

\* C39: a delivery that a replay makes from an entry whose sync_queue_write
\* has not yet returned carries the account, the operation and the payload
\* of the change that is being enqueued.
C39_NoTornRead ==
    [][\A p \in Procs :
          (/\ pol[p].pc = "write"
           /\ pol[p].fd
           /\ Len(adlog') = Len(adlog) + 1
           /\ adlog'[Len(adlog')].by = "replay"
           /\ adlog'[Len(adlog')].chg = pol[p].chg)
              => /\ adlog'[Len(adlog')].princ = req[pol[p].chg].princ
                 /\ adlog'[Len(adlog')].op = req[pol[p].chg].op
                 /\ adlog'[Len(adlog')].pw = req[pol[p].chg].pw]_vars

\* C40: a change whose sync_queue_write wrote the entry to the end and
\* returned 0 is in the queue directory when the hook returns, or the
\* directory service has accepted it, whatever a replay has unlinked
\* during the conflict scan and the enqueue.
C40_UnlinkRaceBenign ==
    \A p \in Procs :
        (/\ pol[p].pc = "done"
         /\ pol[p].ret = 0
         /\ pol[p].chg \in enq)
            => \/ \E name \in DOMAIN dir : dir[name] = pol[p].chg
               \/ DeliveredBy(pol[p].chg, "replay")
               \/ DeliveredBy(pol[p].chg, "policy")

====
